---- MODULE Spec2Model ----
(***************************************************************************)
(* The concurrent experience-collection and training pipeline of          *)
(* agents/fast_dqn_agent.py (FastDQNAgent): Actor Workers -> Transition   *)
(* Queue -> Batch Builders (one private ReplayMemory each) -> Batch Queue *)
(* -> Learner, with the shared exploration rate current_eps and the       *)
(* (double-DQN) target network.                                           *)
(*                                                                         *)
(* The exploration rate is a Python float, an IEEE-754 double: the model   *)
(* computes it bit for bit (53-bit significand, round to nearest, ties to  *)
(* even).  frame_step_ratio is an exact rational <<n, d>>; for the ratios   *)
(* drawn here the float arithmetic of the source gives the same integers.  *)
(***************************************************************************)
EXTENDS Integers, Sequences, FiniteSets, TLC

VARIABLES
    cfg,               \* the constructor arguments of FastDQNAgent (fixed during a run)
    current_eps,       \* self._current_eps (multiprocessing.Value)
    q_network,         \* self._q_network: the value-function parameters
    target_q_network,  \* self._target_q_network: the target parameters
    transition_queue,  \* self._transition_queue (multiprocessing.Queue)
    batch_queue,       \* self._batch_queue (queue.Queue(8))
    actor,             \* the locals of every actor_worker process
    builder,           \* the locals of every _prepare_batch thread
    learner,           \* the locals of learn()/_optimize()
    log                \* history: what was put on and taken from the queues

vars == <<cfg, current_eps, q_network, target_q_network, transition_queue,
          batch_queue, actor, builder, learner, log>>

---------------------------------------------------------------------------
(* Bounds of the model.                                                    *)

\* The number of batch-builder threads.  The source fixes it to 8
\* (self._num_threads, line 125); the model runs the same code with fewer.
NumThreads == 2
\* env.step() calls the actors make, together, before the model stops them.
MaxFrames == 4
\* iterations of the while-loop of _prepare_batch the threads make, together,
\* before the model stops them, in the run that fills the batch queue.
MaxBuilderSteps == 16
\* the environment of the pipeline ends an episode every EpisodeLength steps.
EpisodeLength == 2
\* iterations of the while-loop of learn() before the model stops it.
MaxSteps == 1
\* shard capacities 1..MaxCapacity are drawn for memory_size.
MaxCapacity == 4

\* env.step() calls in the runs that follow the warmup.
MaxWarmupFrames == 3

\* the same three limits for the runs that follow the learner.
MaxLearnFrames == 2
MaxLearnBuilderSteps == 9
MaxLearnSteps == 4

\* target_update_freq is drawn from 1..MaxTargetUpdateFreq.
MaxTargetUpdateFreq == 3

\* insertions into the shard that is followed alone.
MaxInserts == 5
\* the rewards of the transitions inserted into it are 1..MaxReward.
MaxReward == 5

\* queue.Queue(8), line 230.
BatchQueueSize == 8

Threads == 0 .. (NumThreads - 1)

---------------------------------------------------------------------------
(* Exact rational arithmetic: <<n, d>> with d > 0, in lowest terms.        *)

RECURSIVE GCD(_, _)
GCD(a, b) == IF b = 0 THEN a ELSE GCD(b, a % b)

Abs(x) == IF x < 0 THEN -x ELSE x

Rat(n, d) ==
    LET s == IF d < 0 THEN -1 ELSE 1
        g == GCD(Abs(n), Abs(d))
    IN  <<(s * n) \div g, (s * d) \div g>>

RInt(k) == <<k, 1>>
RMul(x, y) == Rat(x[1] * y[1], x[2] * y[2])
RDiv(x, y) == Rat(x[1] * y[2], x[2] * y[1])
RLt(x, y) == x[1] * y[2] < y[1] * x[2]
\* Python's int(x) of a non-negative float: truncation.
RTrunc(x) == x[1] \div x[2]

---------------------------------------------------------------------------
(* Natural numbers of any size: sequences of limbs of LimbBits bits, least *)
(* significant limb first, no leading zero limb.  They carry the exact     *)
(* results of the float operations before rounding.                        *)

Max(a, b) == IF a >= b THEN a ELSE b
Min(a, b) == IF a <= b THEN a ELSE b

LimbBits == 15
LimbBase == 2 ^ LimbBits

RECURSIVE NatLimbs(_)
NatLimbs(n) ==
    IF n = 0 THEN <<>> ELSE <<n % LimbBase>> \o NatLimbs(n \div LimbBase)

RECURSIVE Trim(_)
Trim(b) ==
    IF b = <<>> \/ b[Len(b)] # 0 THEN b ELSE Trim(SubSeq(b, 1, Len(b) - 1))

Limb(b, i) == IF 1 <= i /\ i <= Len(b) THEN b[i] ELSE 0

\* the number of bits of b > 0
BitLen(b) ==
    LimbBits * (Len(b) - 1)
      + CHOOSE w \in 1 .. LimbBits : 2 ^ (w - 1) <= b[Len(b)] /\ b[Len(b)] < 2 ^ w

\* bit i of b, bit 0 the least significant
BitAt(b, i) == (Limb(b, (i \div LimbBits) + 1) \div 2 ^ (i % LimbBits)) % 2

\* whether a bit below bit i of b is set
AnyBitBelow(b, i) ==
    \/ \E j \in 1 .. (i \div LimbBits) : Limb(b, j) # 0
    \/ Limb(b, (i \div LimbBits) + 1) % 2 ^ (i % LimbBits) # 0

\* b * 2^k
ShiftLeft(b, k) ==
    LET ls == k \div LimbBits
        bs == k % LimbBits
    IN  Trim([j \in 1 .. (Len(b) + ls + 1) |->
                (Limb(b, j - ls) % 2 ^ (LimbBits - bs)) * 2 ^ bs
                  + Limb(b, j - ls - 1) \div 2 ^ (LimbBits - bs)])

\* b div 2^k
ShiftRight(b, k) ==
    LET ls == k \div LimbBits
        bs == k % LimbBits
    IN  Trim([j \in 1 .. Max(0, Len(b) - ls) |->
                Limb(b, j + ls) \div 2 ^ bs
                  + (Limb(b, j + ls + 1) % 2 ^ bs) * 2 ^ (LimbBits - bs)])

RECURSIVE BigAddFrom(_, _, _, _, _)
BigAddFrom(a, b, i, carry, acc) ==
    IF i > Max(Len(a), Len(b))
    THEN IF carry = 1 THEN Append(acc, 1) ELSE acc
    ELSE LET sum == Limb(a, i) + Limb(b, i) + carry
         IN  BigAddFrom(a, b, i + 1, sum \div LimbBase,
                        Append(acc, sum % LimbBase))

BigAdd(a, b) == BigAddFrom(a, b, 1, 0, <<>>)

RECURSIVE BigSubFrom(_, _, _, _, _)
BigSubFrom(a, b, i, borrow, acc) ==
    IF i > Len(a) THEN acc
    ELSE LET diff == a[i] - Limb(b, i) - borrow
         IN  BigSubFrom(a, b, i + 1, IF diff < 0 THEN 1 ELSE 0,
                        Append(acc, IF diff < 0 THEN diff + LimbBase ELSE diff))

\* a - b, for a >= b
BigSub(a, b) == Trim(BigSubFrom(a, b, 1, 0, <<>>))

RECURSIVE BigLessFrom(_, _, _)
BigLessFrom(a, b, i) ==
    IF i = 0 THEN FALSE
    ELSE IF Limb(a, i) # Limb(b, i) THEN Limb(a, i) < Limb(b, i)
    ELSE BigLessFrom(a, b, i - 1)

BigLess(a, b) == BigLessFrom(a, b, Max(Len(a), Len(b)))

RECURSIVE BigMulFrom(_, _, _, _, _)
BigMulFrom(a, k, i, carry, acc) ==
    IF i > Len(a) THEN acc \o NatLimbs(carry)
    ELSE LET prod == a[i] * k + carry
         IN  BigMulFrom(a, k, i + 1, prod \div LimbBase,
                        Append(acc, prod % LimbBase))

\* a * k, for an integer 0 <= k < LimbBase
BigMul(a, k) == Trim(BigMulFrom(a, k, 1, 0, <<>>))

RECURSIVE BigDivFrom(_, _, _, _, _)
BigDivFrom(a, d, i, rem, acc) ==
    IF i = 0 THEN <<Trim(acc), rem>>
    ELSE LET r == LimbBase * rem + a[i]
         IN  BigDivFrom(a, d, i - 1, r % d, <<r \div d>> \o acc)

\* <<a div d, a mod d>>, for an integer 0 < d < LimbBase
BigDivMod(a, d) == BigDivFrom(a, d, Len(a), 0, <<>>)

---------------------------------------------------------------------------
(* Python floats: IEEE-754 doubles.  A float is (-1)^neg * man * 2^exp,     *)
(* man a significand of exactly MantissaBits bits (the top one set), or    *)
(* Zero.  Every operation rounds its exact result once, to nearest, ties   *)
(* to even.  Overflow, subnormals and the sign of zero are out of the      *)
(* range of the exploration rates and are not modelled; the integer        *)
(* operands (steps, eps_decay) are below LimbBase.                         *)

\* multiprocessing.Value('d', ...): a C double, as every Python float.
MantissaBits == 53

Zero == [neg |-> FALSE, man |-> <<>>, exp |-> 0]

\* The double nearest to (-1)^neg * bits * 2^exp; sticky tells that the exact
\* value is a little larger in magnitude (the remainder of a division), and
\* then bits has more than MantissaBits bits.
RoundToDouble(neg, bits, exp, sticky) ==
    IF bits = <<>> THEN Zero
    ELSE LET len == BitLen(bits)
         IN  IF len <= MantissaBits
             THEN [neg |-> neg, man |-> ShiftLeft(bits, MantissaBits - len),
                   exp |-> exp - (MantissaBits - len)]
             ELSE LET drop == len - MantissaBits
                      kept == ShiftRight(bits, drop)
                      rest == sticky \/ AnyBitBelow(bits, drop - 1)
                      up == BitAt(bits, drop - 1) = 1
                              /\ (rest \/ BitAt(kept, 0) = 1)
                      inc == IF up THEN BigAdd(kept, <<1>>) ELSE kept
                  IN  IF BitLen(inc) > MantissaBits
                      THEN [neg |-> neg, man |-> ShiftRight(inc, 1),
                            exp |-> exp + drop + 1]
                      ELSE [neg |-> neg, man |-> inc, exp |-> exp + drop]

\* float(k) of an integer
FloatFromInt(k) == RoundToDouble(k < 0, NatLimbs(Abs(k)), 0, FALSE)

FloatNeg(x) == IF x = Zero THEN Zero ELSE [x EXCEPT !.neg = ~x.neg]

\* x + y
FloatAdd(x, y) ==
    IF x = Zero THEN y
    ELSE IF y = Zero THEN x
    ELSE LET e == Min(x.exp, y.exp)
             a == ShiftLeft(x.man, x.exp - e)
             b == ShiftLeft(y.man, y.exp - e)
         IN  IF x.neg = y.neg THEN RoundToDouble(x.neg, BigAdd(a, b), e, FALSE)
             ELSE IF a = b THEN Zero
             ELSE IF BigLess(a, b)
                  THEN RoundToDouble(y.neg, BigSub(b, a), e, FALSE)
                  ELSE RoundToDouble(x.neg, BigSub(a, b), e, FALSE)

\* x - y
FloatSub(x, y) == FloatAdd(x, FloatNeg(y))

\* x * k for an int k (Python converts k to a float, exactly)
FloatMulInt(x, k) ==
    IF x = Zero \/ k = 0 THEN Zero
    ELSE RoundToDouble(x.neg # (k < 0), BigMul(x.man, Abs(k)), x.exp, FALSE)

\* x / d for an int d # 0
FloatDivInt(x, d) ==
    IF x = Zero THEN Zero
    ELSE LET guard == 4 * LimbBits
             qr == BigDivMod(ShiftLeft(x.man, guard), Abs(d))
         IN  RoundToDouble(x.neg # (d < 0), qr[1], x.exp - guard, qr[2] # 0)

MagnitudeLess(x, y) ==
    IF y = Zero THEN FALSE
    ELSE IF x = Zero THEN TRUE
    ELSE x.exp < y.exp \/ (x.exp = y.exp /\ BigLess(x.man, y.man))

\* x < y
FloatLt(x, y) ==
    IF x.neg # y.neg THEN x.neg
    ELSE IF x.neg THEN MagnitudeLess(y, x) ELSE MagnitudeLess(x, y)

\* x <= y
FloatLeq(x, y) == x = y \/ FloatLt(x, y)

\* The float literal k/10 (0.1, 0.55, 1.0, ...): the double nearest to it.
Tenths(k) == FloatDivInt(FloatFromInt(k), 10)

---------------------------------------------------------------------------
(* FastDQNAgent.__init__: the fields the pipeline reads.                   *)

\* The constructor arguments, as one record.  frame_step_ratio is a rational;
\* eps_start and eps_end are floats; the other numbers are integers.
\* init_model_path is the N of 'agent.model-N', or -1 for None;
\* save_model_dir is whether a directory is given.
Args(batch_size, init_memory_size, memory_size, frame_step_ratio, double_dqn, target_update_freq, eps_method, eps_start, eps_end, eps_decay, loss_type, init_model_path, save_model_dir, save_model_freq) ==
    [batch_size |-> batch_size,
     init_memory_size |-> init_memory_size,
     memory_size |-> memory_size,
     frame_step_ratio |-> frame_step_ratio,
     double_dqn |-> double_dqn,
     target_update_freq |-> target_update_freq,
     eps_method |-> eps_method,
     eps_start |-> eps_start,
     eps_end |-> eps_end,
     eps_decay |-> eps_decay,
     loss_type |-> loss_type,
     init_model_path |-> init_model_path,
     save_model_dir |-> save_model_dir,
     save_model_freq |-> save_model_freq]

\* self._init_memory_size = max(init_memory_size, batch_size)
InitMemorySize(args) == Max(args.init_memory_size, args.batch_size)

\* The object after __init__: every field is the argument, except
\* init_memory_size; args keeps what the caller passed.  _episode_idx is 0,
\* or the number that ends the name of the model loaded (lines 123, 129-132).
FastDQNAgent(args) ==
    [f \in DOMAIN args \cup {"episode_idx"} |->
        IF f = "episode_idx"
        THEN (IF args.init_model_path >= 0 THEN args.init_model_path ELSE 0)
        ELSE IF f = "init_memory_size" THEN InitMemorySize(args)
        ELSE args[f]]

\* self._current_eps = multiprocessing.Value('d', 1.0)
InitialEps == FloatFromInt(1)

---------------------------------------------------------------------------
(* _get_current_eps.  An exploration rate is base + amp * exp(-pow/decay): *)
(* the linear schedule yields the float it computes (amp = 0); the         *)
(* exponential one yields base = eps_end, amp = eps_start - eps_end,       *)
(* pow = steps, the factor math.exp(-1. * steps / eps_decay) being kept    *)
(* symbolic (math.exp(-0.0) = 1.0 is evaluated).                           *)

EpsValue(base, amp, pow) ==
    IF amp = Zero THEN [base |-> base, amp |-> Zero, pow |-> 0]
    ELSE IF pow = 0 THEN [base |-> FloatAdd(base, amp), amp |-> Zero, pow |-> 0]
    ELSE [base |-> base, amp |-> amp, pow |-> pow]

EpsFloat(x) == EpsValue(x, Zero, 0)

SupportedEpsMethods == {"exponential", "linear"}

\* math.exp(-x) is 0.0 for every x >= 746: e^-746 is below half the
\* smallest positive double, 2^-1075.
ExpUnderflow == 746

get_current_eps(c, steps) ==
    IF c.eps_method = "exponential"
    THEN EpsValue(c.eps_end,
                  IF steps >= ExpUnderflow * c.eps_decay THEN Zero
                  ELSE FloatSub(c.eps_start, c.eps_end),
                  steps)
    ELSE \* 'linear'
         LET clipped == Min(c.eps_decay, steps)
         IN  EpsFloat(FloatSub(c.eps_start,
                               FloatDivInt(FloatMulInt(FloatSub(c.eps_start, c.eps_end),
                                                       clipped),
                                           c.eps_decay)))

\* x <= y for exploration rates, decided where the symbolic factor allows:
\* for pow >= 1 the factor lies in (0, 1] and does not grow with pow, and
\* rounding is monotone, so the value lies between base and base + amp.
\* FALSE when the order is not decided.
EpsLo(x) == IF x.amp.neg THEN FloatAdd(x.base, x.amp) ELSE x.base
EpsHi(x) == IF x.amp.neg THEN x.base ELSE FloatAdd(x.base, x.amp)
EpsLeq(x, y) ==
    \/ x = y
    \/ FloatLeq(EpsHi(x), EpsLo(y))
    \/ /\ x.base = y.base /\ x.amp = y.amp
       /\ IF x.amp.neg THEN x.pow <= y.pow ELSE x.pow >= y.pow

---------------------------------------------------------------------------
(* agents/memory.py (not among the sources): ReplayMemory and Transition,  *)
(* as the specification describes the Replay Shard.                        *)

Transition(item) ==
    [observation |-> item[1], action |-> item[2], reward |-> item[3],
     next_observation |-> item[4], done |-> item[5]]

ReplayMemory(capacity) ==
    [capacity |-> capacity, memory |-> <<>>, position |-> 0]

\* len(memory)
MemLen(m) == Len(m.memory)

\* A push that, once the buffer is full, always overwrites the first slot.
MemPush_OverwriteFirst(m, item) ==
    [m EXCEPT
       !.memory = IF Len(m.memory) < m.capacity
                  THEN Append(m.memory, Transition(item))
                  ELSE [m.memory EXCEPT ![1] = Transition(item)],
       !.position = (m.position + 1) % m.capacity]

\* memory.push(*item): fill the next free slot, then overwrite circularly.
MemPush(m, item) ==
    [m EXCEPT
       !.memory = IF Len(m.memory) < m.capacity
                  THEN Append(m.memory, Transition(item))
                  ELSE [m.memory EXCEPT ![m.position + 1] = Transition(item)],
       !.position = (m.position + 1) % m.capacity]

\* memory.sample(k): every list of k entries of the buffer, drawn with
\* replacement; the call requires len(memory) >= k.
MemSamples(m, k) ==
    {[j \in 1 .. k |-> m.memory[idx[j]]] : idx \in [1 .. k -> 1 .. Len(m.memory)]}

---------------------------------------------------------------------------
(* _init_parallel_actors and the queues.                                   *)

FrameStepRatioBelowOne(c) == RLt(c.frame_step_ratio, <<1, 1>>)

\* A queue with room for one transition more.
TransitionQueueSize_OneMore(c) ==
    IF FrameStepRatioBelowOne(c) THEN 2
    ELSE RTrunc(RMul(c.frame_step_ratio, RInt(NumThreads))) + 1

\* multiprocessing.Queue(1 if frame_step_ratio < 1
\*                       else int(frame_step_ratio * num_threads))
TransitionQueueSize(c) ==
    IF FrameStepRatioBelowOne(c) THEN 1
    ELSE RTrunc(RMul(c.frame_step_ratio, RInt(NumThreads)))

\* queue.put(item) on a queue of the given maxsize: blocks while it is full.
CanPut(queue, maxsize) == Len(queue) < maxsize
\* queue.get(): blocks while the queue is empty.
CanGet(queue) == Len(queue) > 0

\* A capacity rounded up instead of down.
ShardCapacity_RoundUp(c) == (c.memory_size + NumThreads - 1) \div NumThreads

\* int(self._memory_size / self._num_threads)
ShardCapacity(c) == c.memory_size \div NumThreads
\* int(1 / self._frame_step_ratio)
StepsPerFrame(c) == RTrunc(RDiv(<<1, 1>>, c.frame_step_ratio))
\* A frame count rounded up instead of down.
FramesPerStep_RoundUp(c) ==
    (c.frame_step_ratio[1] + c.frame_step_ratio[2] - 1) \div c.frame_step_ratio[2]


\* int(self._frame_step_ratio)
FramesPerStep(c) == RTrunc(c.frame_step_ratio)

\* len(memory) < self._init_memory_size / self._num_threads
InWarmup(c, m) == MemLen(m) * NumThreads < c.init_memory_size

\* range(num_actor_workers)
Actors == 0 .. (cfg.num_actor_workers - 1)

\* How far a run is followed: env.step() calls of all actors together,
\* iterations of all _prepare_batch threads together, iterations of learn().
Limit(frames, builder_steps, steps) ==
    [frames |-> frames, builder_steps |-> builder_steps, steps |-> steps]

\* self._load_model(init_model_path), when a path is given.
LoadedModel(args) ==
    IF args.init_model_path >= 0 THEN args.init_model_path ELSE 0

\* The state once learn(create_env_fn, num_actor_workers) has called
\* _init_parallel_actors: every process and thread is at the top of its
\* function, the queues are empty.
Start(args, num_actor_workers, limit) ==
    /\ cfg = [agent |-> FastDQNAgent(args), args |-> args,
              num_actor_workers |-> num_actor_workers, limit |-> limit]
    /\ current_eps = EpsFloat(InitialEps)
    \* __init__ lines 127-130: the network passed in, or the parameters of
    \* 'agent.model-N', those of N optimizer steps.
    /\ q_network = LoadedModel(args)
    \* __init__ lines 138-140: the target network is a synced copy when
    \* double_dqn is set, and does not exist (-1) otherwise.
    /\ target_q_network = IF args.double_dqn THEN LoadedModel(args) ELSE -1
    /\ transition_queue = <<>>
    /\ batch_queue = <<>>
    /\ actor = [a \in 0 .. (num_actor_workers - 1) |->
                  [pc |-> "reset", episode |-> 0, frame |-> 0,
                   observation |-> <<>>, action |-> 0, reward |-> 0,
                   next_observation |-> <<>>, done |-> FALSE,
                   episode_id |-> 0, eps |-> EpsFloat(InitialEps)]]
    /\ builder = [t \in Threads |->
                  [pc |-> "loop", steps |-> 0, todo |-> 0,
                   memory |-> ReplayMemory(ShardCapacity(FastDQNAgent(args)))]]
    /\ learner = [pc |-> "sync", steps |-> 0, batch |-> <<>>]
    /\ log = [tq_put |-> {},
              pushed |-> [t \in Threads |-> <<>>],
              bq_put |-> <<>>,
              bq_got |-> <<>>,
              eps_written |-> <<>>,
              saved |-> <<>>]

---------------------------------------------------------------------------
(* actor_worker (lines 37-72).  The environment is outside the program:    *)
(* here every observation is new (<<pid, episode, frame>>), the reward of  *)
(* the k-th step of an environment is k, and done is drawn from dones.     *)

\* env.reset(); done = False
ActorReset(a) ==
    /\ actor[a].pc = "reset"
    /\ actor' = [actor EXCEPT
                   ![a].episode = @ + 1,
                   ![a].observation = <<a, actor[a].episode + 1, actor[a].frame>>,
                   ![a].done = FALSE,
                   ![a].pc = "step"]
    /\ UNCHANGED <<cfg, current_eps, q_network, target_q_network,
                   transition_queue, batch_queue, builder, learner, log>>

\* env.step() calls made so far, over all actors.
RECURSIVE SumFrames(_, _)
SumFrames(w, n) == IF n = 0 THEN 0 ELSE w[n - 1].frame + SumFrames(w, n - 1)

\* action = act(observation, eps=current_eps.value); env.step(action)
ActorStepIn(a, actions, dones) ==
    /\ actor[a].pc = "step"
    /\ SumFrames(actor, cfg.num_actor_workers) < cfg.limit.frames
    /\ \E action \in actions, done \in dones :
         actor' = [actor EXCEPT
                     ![a].eps = current_eps,
                     ![a].action = action,
                     ![a].frame = @ + 1,
                     ![a].next_observation =
                         <<a, actor[a].episode, actor[a].frame + 1>>,
                     ![a].reward = actor[a].frame + 1,
                     ![a].done = done,
                     ![a].pc = "put"]
    /\ UNCHANGED <<cfg, current_eps, q_network, target_q_network,
                   transition_queue, batch_queue, builder, learner, log>>

ActionSpace == {0}

\* The environment of the pipeline ends an episode every EpisodeLength steps.
ActorStep(a) ==
    ActorStepIn(a, ActionSpace, {(actor[a].frame + 1) % EpisodeLength = 0})


\* An actor that puts the same transition twice.
ActorPut_Twice(a) ==
    LET item == <<actor[a].observation, actor[a].action, actor[a].reward,
                  actor[a].next_observation, actor[a].done>>
    IN  /\ actor[a].pc = "put"
        /\ CanPut(transition_queue, TransitionQueueSize(cfg.agent))
        /\ transition_queue' = Append(Append(transition_queue, item), item)
        /\ log' = [log EXCEPT !.tq_put = @ \cup {item}]
        /\ actor' = [actor EXCEPT
                       ![a].observation = actor[a].next_observation,
                       ![a].episode_id = IF actor[a].done THEN @ + 1 ELSE @,
                       ![a].pc = IF actor[a].done THEN "reset" ELSE "step"]
        /\ UNCHANGED <<cfg, current_eps, q_network, target_q_network,
                       batch_queue, builder, learner>>


\* An actor that puts the transition and keeps its observation.
ActorPut_NoAdvance(a) ==
    LET item == <<actor[a].observation, actor[a].action, actor[a].reward,
                  actor[a].next_observation, actor[a].done>>
    IN  /\ actor[a].pc = "put"
        /\ CanPut(transition_queue, TransitionQueueSize(cfg.agent))
        /\ transition_queue' = Append(transition_queue, item)
        /\ log' = [log EXCEPT !.tq_put = @ \cup {item}]
        /\ actor' = [actor EXCEPT
                       ![a].episode_id = IF actor[a].done THEN @ + 1 ELSE @,
                       ![a].pc = IF actor[a].done THEN "reset" ELSE "step"]
        /\ UNCHANGED <<cfg, current_eps, q_network, target_q_network,
                       batch_queue, builder, learner>>

\* out_queue.put((observation, action, reward, next_observation, done));
\* observation = next_observation; at the end of an episode episode_id += 1
ActorPut(a) ==
    LET item == <<actor[a].observation, actor[a].action, actor[a].reward,
                  actor[a].next_observation, actor[a].done>>
    IN  /\ actor[a].pc = "put"
        /\ CanPut(transition_queue, TransitionQueueSize(cfg.agent))
        /\ transition_queue' = Append(transition_queue, item)
        /\ log' = [log EXCEPT !.tq_put = @ \cup {item}]
        /\ actor' = [actor EXCEPT
                       ![a].observation = actor[a].next_observation,
                       ![a].episode_id = IF actor[a].done THEN @ + 1 ELSE @,
                       ![a].pc = IF actor[a].done THEN "reset" ELSE "step"]
        /\ UNCHANGED <<cfg, current_eps, q_network, target_q_network,
                       batch_queue, builder, learner>>

---------------------------------------------------------------------------
(* _prepare_batch (lines 241-260) and _transitions_to_batch.               *)

\* Iterations of _prepare_batch started so far, over all threads.
RECURSIVE SumSteps(_, _)
SumSteps(b, n) == IF n = 0 THEN 0 ELSE b[n - 1].steps + SumSteps(b, n - 1)

\* A thread that samples whatever its shard holds.
AfterDrain_NoWarmup(c, m) == "put"

\* Where a thread goes once its iteration has drained its transitions:
\* if len(memory) < self._init_memory_size / self._num_threads: continue
AfterDrain(c, m) == IF InWarmup(c, m) THEN "loop" ELSE "put"

\* steps += 1, and how many transitions this iteration drains
BuilderLoop(t) ==
    LET steps == builder[t].steps + 1
        todo == IF FrameStepRatioBelowOne(cfg.agent)
                THEN (IF steps % StepsPerFrame(cfg.agent) = 0 THEN 1 ELSE 0)
                ELSE FramesPerStep(cfg.agent)
    IN  /\ builder[t].pc = "loop"
        /\ SumSteps(builder, NumThreads) < cfg.limit.builder_steps
        /\ builder' = [builder EXCEPT
                         ![t].steps = steps,
                         ![t].todo = todo,
                         ![t].pc = IF todo > 0 THEN "get"
                                   ELSE AfterDrain(cfg.agent, builder[t].memory)]
        /\ UNCHANGED <<cfg, current_eps, q_network, target_q_network,
                       transition_queue, batch_queue, actor, learner, log>>

\* A thread that reads the head of the queue and leaves it there.
BuilderGet_Peek(t) ==
    LET memory == MemPush(builder[t].memory, Head(transition_queue))
    IN  /\ builder[t].pc = "get"
        /\ CanGet(transition_queue)
        /\ builder' = [builder EXCEPT
                         ![t].memory = memory,
                         ![t].todo = @ - 1,
                         ![t].pc = IF builder[t].todo = 1
                                   THEN AfterDrain(cfg.agent, memory) ELSE "get"]
        /\ log' = [log EXCEPT !.pushed[t] = Append(@, Head(transition_queue))]
        /\ UNCHANGED <<cfg, current_eps, q_network, target_q_network,
                       transition_queue, batch_queue, actor, learner>>

\* memory.push(*(self._transition_queue.get())), and after the last one of
\* the iteration the warmup test
BuilderGet(t) ==
    LET memory == MemPush(builder[t].memory, Head(transition_queue))
    IN  /\ builder[t].pc = "get"
        /\ CanGet(transition_queue)
        /\ transition_queue' = Tail(transition_queue)
        /\ builder' = [builder EXCEPT
                         ![t].memory = memory,
                         ![t].todo = @ - 1,
                         ![t].pc = IF builder[t].todo = 1
                                   THEN AfterDrain(cfg.agent, memory) ELSE "get"]
        /\ log' = [log EXCEPT !.pushed[t] = Append(@, Head(transition_queue))]
        /\ UNCHANGED <<cfg, current_eps, q_network, target_q_network,
                       batch_queue, actor, learner>>

\* A batch that leaves out the last transition of the sample.
transitions_to_batch_DropLast(transitions) ==
    LET n == Len(transitions) - 1
    IN  <<[j \in 1 .. n |-> transitions[j].next_observation],
          [j \in 1 .. n |-> transitions[j].observation],
          [j \in 1 .. n |-> transitions[j].reward],
          [j \in 1 .. n |-> transitions[j].action],
          [j \in 1 .. n |-> IF transitions[j].done THEN 1 ELSE 0]>>

\* Transition(*zip(*transitions)), then one tensor per field, in the order
\* (next_obs, obs, reward, action, done); done becomes a float tensor.
transitions_to_batch(transitions) ==
    LET n == Len(transitions)
    IN  <<[j \in 1 .. n |-> transitions[j].next_observation],
          [j \in 1 .. n |-> transitions[j].observation],
          [j \in 1 .. n |-> transitions[j].reward],
          [j \in 1 .. n |-> transitions[j].action],
          [j \in 1 .. n |-> IF transitions[j].done THEN 1 ELSE 0]>>

\* transitions = memory.sample(self._batch_size)
\* self._batch_queue.put(self._transitions_to_batch(transitions))
\* A sample of more than the shard holds is fatal to the thread.  The shard
\* is private, so drawing the sample when the put completes is the same as
\* drawing it before the put blocks.
BuilderPut(t) ==
    /\ builder[t].pc = "put"
    /\ IF MemLen(builder[t].memory) < cfg.agent.batch_size
       THEN /\ builder' = [builder EXCEPT ![t].pc = "crashed"]
            /\ UNCHANGED <<batch_queue, log>>
       ELSE /\ CanPut(batch_queue, BatchQueueSize)
            /\ \E transitions \in MemSamples(builder[t].memory, cfg.agent.batch_size) :
                 LET batch == transitions_to_batch(transitions)
                 IN  /\ batch_queue' = Append(batch_queue, batch)
                     /\ log' = [log EXCEPT !.bq_put = Append(@, batch)]
            /\ builder' = [builder EXCEPT ![t].pc = "loop"]
    /\ UNCHANGED <<cfg, current_eps, q_network, target_q_network,
                   transition_queue, actor, learner>>

---------------------------------------------------------------------------
(* learn (lines 163-181) and _optimize (lines 183-217).  The parameters of *)
(* a network are the number of optimizer steps that produced them.         *)

\* A sync that is due one step early.
TargetSyncDue_StepEarly(c, steps) ==
    c.double_dqn /\ (steps + 1) % c.target_update_freq = 0

\* self._double_dqn and steps % self._target_update_freq == 0
TargetSyncDue(c, steps) ==
    c.double_dqn /\ steps % c.target_update_freq = 0

\* _update_target_network: load_state_dict(self._q_network.state_dict())
update_target_network(q, target) == q

LearnerSync ==
    /\ learner.pc = "sync"
    /\ learner.steps < cfg.limit.steps
    /\ target_q_network' = IF TargetSyncDue(cfg.agent, learner.steps)
                           THEN update_target_network(q_network, target_q_network)
                           ELSE target_q_network
    /\ learner' = [learner EXCEPT !.pc = "eps"]
    /\ UNCHANGED <<cfg, current_eps, q_network, transition_queue,
                   batch_queue, actor, builder, log>>

\* A learner that computes the rate and does not publish it.
LearnerEps_NoPublish ==
    /\ learner.pc = "eps"
    /\ learner' = [learner EXCEPT !.pc = "get"]
    /\ UNCHANGED <<cfg, current_eps, q_network, target_q_network,
                   transition_queue, batch_queue, actor, builder, log>>

\* A learner that treats every unknown schedule as the linear one.
LearnerEps_ElseLinear ==
    /\ learner.pc = "eps"
    /\ current_eps' = get_current_eps(cfg.agent, learner.steps)
    /\ log' = [log EXCEPT
                 !.eps_written =
                     Append(@, get_current_eps(cfg.agent, learner.steps))]
    /\ learner' = [learner EXCEPT !.pc = "get"]
    /\ UNCHANGED <<cfg, q_network, target_q_network, transition_queue,
                   batch_queue, actor, builder>>

\* self._current_eps.value = self._get_current_eps(steps)
LearnerEps ==
    /\ learner.pc = "eps"
    /\ IF cfg.agent.eps_method \in SupportedEpsMethods
       THEN /\ current_eps' = get_current_eps(cfg.agent, learner.steps)
            /\ log' = [log EXCEPT
                         !.eps_written =
                             Append(@, get_current_eps(cfg.agent, learner.steps))]
            /\ learner' = [learner EXCEPT !.pc = "get"]
       ELSE \* raise NotImplementedError
            /\ learner' = [learner EXCEPT !.pc = "crashed"]
            /\ UNCHANGED <<current_eps, log>>
    /\ UNCHANGED <<cfg, q_network, target_q_network, transition_queue,
                   batch_queue, actor, builder>>

\* (...) = self._batch_queue.get()
LearnerGet ==
    /\ learner.pc = "get"
    /\ CanGet(batch_queue)
    /\ batch_queue' = Tail(batch_queue)
    /\ learner' = [learner EXCEPT !.batch = Head(batch_queue),
                                  !.pc = "optimize"]
    /\ log' = [log EXCEPT !.bq_got = Append(@, Head(batch_queue))]
    /\ UNCHANGED <<cfg, current_eps, q_network, target_q_network,
                   transition_queue, actor, builder>>

SupportedLossTypes == {"smooth_l1", "mse"}

\* A checkpoint test that uses the counter before its increment.
SaveDue_BeforeIncrement(c, steps) ==
    c.save_model_dir /\ (steps - 1) % c.save_model_freq = 0

\* steps % self._save_model_freq == 0 with a directory configured
SaveDue(c, steps) ==
    c.save_model_dir /\ steps % c.save_model_freq = 0

\* A learner that takes the optimizer step and leaves its counter alone.
LearnerOptimize_NoCount ==
    /\ learner.pc = "optimize"
    /\ cfg.agent.loss_type \in SupportedLossTypes
    /\ q_network' = q_network + 1
    /\ learner' = [learner EXCEPT !.batch = <<>>, !.pc = "sync"]
    /\ UNCHANGED <<cfg, current_eps, target_q_network, transition_queue,
                   batch_queue, actor, builder, log>>


\* A learner that takes the optimizer step whatever the loss is called.
LearnerOptimize_AnyLoss ==
    /\ learner.pc = "optimize"
    /\ q_network' = q_network + 1
    /\ learner' = [learner EXCEPT !.steps = @ + 1, !.batch = <<>>, !.pc = "sync"]
    /\ log' = [log EXCEPT
                 !.saved = IF SaveDue(cfg.agent, learner.steps + 1)
                           THEN Append(@, learner.steps + 1) ELSE @]
    /\ UNCHANGED <<cfg, current_eps, target_q_network, transition_queue,
                   batch_queue, actor, builder>>

\* The rest of _optimize (targets, loss, clipped gradient, optimizer step),
\* then steps += 1 and the checkpoint.
LearnerOptimize ==
    /\ learner.pc = "optimize"
    /\ IF cfg.agent.loss_type \in SupportedLossTypes
       THEN /\ q_network' = q_network + 1
            /\ learner' = [learner EXCEPT !.steps = @ + 1,
                                          !.batch = <<>>,
                                          !.pc = "sync"]
            /\ log' = [log EXCEPT
                         !.saved = IF SaveDue(cfg.agent, learner.steps + 1)
                                   THEN Append(@, learner.steps + 1) ELSE @]
       ELSE \* raise NotImplementedError
            /\ learner' = [learner EXCEPT !.pc = "crashed"]
            /\ UNCHANGED <<q_network, log>>
    /\ UNCHANGED <<cfg, current_eps, target_q_network, transition_queue,
                   batch_queue, actor, builder>>

---------------------------------------------------------------------------
(* The pipeline.                                                           *)

Next ==
    \/ \E a \in Actors : ActorReset(a)
    \/ \E a \in Actors : ActorStep(a)
    \/ \E a \in Actors : ActorPut(a)
    \/ \E t \in Threads : BuilderLoop(t)
    \/ \E t \in Threads : BuilderGet(t)
    \/ \E t \in Threads : BuilderPut(t)
    \/ LearnerSync
    \/ LearnerEps
    \/ LearnerGet
    \/ LearnerOptimize


\* memory_size for every shard capacity 1..k, with and without a remainder
\* of the division by the number of threads.
MemorySizes(k) ==
    {NumThreads * c + r : c \in 1 .. k, r \in {0, 1}}

\* The pipeline with one-slot shards that are warm after their first
\* transition and batches of one transition.
PipelineArgs(frame_step_ratio) ==
    Args(1, 1, NumThreads, frame_step_ratio, FALSE, 1, "linear",
         Tenths(10), Tenths(1), 2, "mse", -1, FALSE, 1)

\* <<frame_step_ratio, num_actor_workers, limit>>: one long run of one actor
\* at one frame per eight builder iterations, in which the threads fill the
\* batch queue, and shorter runs at frame/step ratios below and above 1, with
\* one and with two actors.
PipelineRuns ==
    {<<<<1, 8>>, 1, Limit(MaxFrames, MaxBuilderSteps, MaxSteps)>>,
     <<<<1, 2>>, 1, Limit(MaxFrames, MaxFrames + 1, MaxSteps)>>,
     <<<<2, 1>>, 1, Limit(MaxFrames, MaxFrames + 1, MaxSteps)>>,
     <<<<2, 1>>, 2, Limit(MaxFrames, MaxFrames + 1, MaxSteps)>>}

Init ==
    \E run \in PipelineRuns : Start(PipelineArgs(run[1]), run[2], run[3])

Spec == Init /\ [][Next]_vars

---------------------------------------------------------------------------
(* A Replay Shard alone: the shard of thread 0, of every capacity          *)
(* 1..MaxCapacity, under MaxInserts insertions of transitions with any     *)
(* rewards 1..MaxReward.                                                   *)

ShardArgs ==
    {Args(1, 1, ms, <<1, 1>>, FALSE, 1, "linear", Tenths(10), Tenths(1), 2,
          "mse", -1, FALSE, 1) : ms \in MemorySizes(MaxCapacity)}

InitShard == \E args \in ShardArgs : Start(args, 1, Limit(0, 0, 0))

\* memory.push(*item) on the shard of thread t, item being the n-th
\* transition of an episode with the given reward.
ShardPush(t, reward) ==
    LET n == Len(log.pushed[t])
        item == <<<<0, 1, n>>, 0, reward, <<0, 1, n + 1>>, FALSE>>
    IN  /\ n < MaxInserts
        /\ builder' = [builder EXCEPT ![t].memory = MemPush(@, item)]
        /\ log' = [log EXCEPT !.pushed[t] = Append(@, item)]
        /\ UNCHANGED <<cfg, current_eps, q_network, target_q_network,
                       transition_queue, batch_queue, actor, learner>>

NextShard == \E reward \in 1 .. MaxReward : ShardPush(0, reward)

SpecShard == InitShard /\ [][NextShard]_vars

\* The rewards held by a shard, slot by slot.
Rewards(m) == [j \in 1 .. Len(m.memory) |-> m.memory[j].reward]

\* C1: after n insertions into a Replay Shard of capacity C >= 1 the shard
\* holds min(n, C) transitions, the i-th insertion (0-based) is in slot
\* i mod C unless a later insertion has overwritten it, and the shard holds
\* exactly the most recent min(n, C) transitions.
C1_CircularShard ==
    \A t \in Threads :
        LET m == builder[t].memory
            h == log.pushed[t]
            n == Len(h)
            C == m.capacity
        IN  /\ C >= 1
            /\ MemLen(m) = Min(n, C)
            /\ MemLen(m) <= C
            /\ \A i \in 0 .. (n - 1) :
                   i + C >= n => m.memory[(i % C) + 1] = Transition(h[i + 1])
            /\ {m.memory[j] : j \in 1 .. MemLen(m)}
                   = {Transition(h[i]) : i \in (n - Min(n, C) + 1) .. n}

\* Capacity 4, rewards 1,2,3,4,5 inserted in this order: slots [5,2,3,4].
C1_Witness ==
    \E t \in Threads :
        /\ builder[t].memory.capacity = 4
        /\ Len(log.pushed[t]) = 5
        /\ [i \in 1 .. 5 |-> log.pushed[t][i][3]] = <<1, 2, 3, 4, 5>>
        /\ Rewards(builder[t].memory) = <<5, 2, 3, 4>>

---------------------------------------------------------------------------
(* The path Transition Queue -> Replay Shard -> Batch Queue.               *)

Range(q) == {q[i] : i \in 1 .. Len(q)}

RECURSIVE AllPushed(_)
\* The transitions inserted into the shards of threads 0..n-1, in one list.
AllPushed(n) == IF n = 0 THEN <<>> ELSE AllPushed(n - 1) \o log.pushed[n - 1]

RECURSIVE ActorsAt(_, _)
\* How many of the actors 0..n-1 are at pc.
ActorsAt(pc, n) ==
    IF n = 0 THEN 0
    ELSE ActorsAt(pc, n - 1) + (IF actor[n - 1].pc = pc THEN 1 ELSE 0)

\* C2: every transition an actor has put is in the Transition Queue or has
\* been taken by exactly one thread and inserted exactly once into the shard
\* of that thread, and nothing else is; every batch put on the Batch Queue is
\* in it or has been taken exactly once by the Learner, in the order of the
\* puts.
C2_NoDropNoDuplicate ==
    LET all == transition_queue \o AllPushed(NumThreads)
    IN  /\ Cardinality(log.tq_put)
             = SumFrames(actor, cfg.num_actor_workers)
                 - ActorsAt("put", cfg.num_actor_workers)
        /\ Len(all) = Cardinality(log.tq_put)
        /\ Range(all) = log.tq_put
        /\ \A t \in Threads :
             LET m == builder[t].memory
             IN  /\ Range(m.memory) \subseteq
                        {Transition(i) : i \in Range(log.pushed[t])}
                 /\ Cardinality(Range(m.memory)) = MemLen(m)
                 /\ log.pushed[t] # <<>> =>
                        Transition(log.pushed[t][Len(log.pushed[t])])
                            \in Range(m.memory)
        /\ log.bq_put = log.bq_got \o batch_queue
        /\ learner.pc = "optimize" =>
               /\ log.bq_got # <<>>
               /\ learner.batch = log.bq_got[Len(log.bq_got)]

\* Two actors have put transitions, both threads have inserted some into
\* their shards, the Learner has taken a batch and another one is queued.
C2_Witness ==
    /\ cfg.num_actor_workers = 2
    /\ \A a \in Actors : \E item \in log.tq_put : item[1][1] = a
    /\ \A t \in Threads : log.pushed[t] # <<>>
    /\ log.bq_got # <<>>
    /\ batch_queue # <<>>

\* int(frame_step_ratio * num_builders), or 1 below a ratio of 1.
C3_TransitionCapacity ==
    IF RLt(cfg.args.frame_step_ratio, <<1, 1>>) THEN 1
    ELSE (cfg.args.frame_step_ratio[1] * NumThreads)
             \div cfg.args.frame_step_ratio[2]

C3_Bounded ==
    /\ Len(transition_queue) <= C3_TransitionCapacity
    /\ Len(batch_queue) <= 8
    /\ Len(AllPushed(NumThreads)) <= Cardinality(log.tq_put)
    /\ Len(log.bq_got) <= Len(log.bq_put)

C3_Blocking ==
    /\ \A a \in Actors :
         actor[a].pc = "put" /\ Len(transition_queue) = C3_TransitionCapacity
             => actor'[a] = actor[a] /\ Len(transition_queue') <= Len(transition_queue)
    /\ \A t \in Threads :
         builder[t].pc = "put" /\ Len(batch_queue) = 8
                /\ MemLen(builder[t].memory) >= cfg.agent.batch_size
             => builder'[t] = builder[t] /\ Len(batch_queue') <= Len(batch_queue)
    /\ \A t \in Threads :
         builder[t].pc = "get" /\ transition_queue = <<>>
             => builder'[t] = builder[t]
    /\ learner.pc = "get" /\ batch_queue = <<>> => learner' = learner

\* C3: the Transition Queue never holds more than its capacity and the Batch
\* Queue never more than 8 batches; a put on a full queue and a get on an
\* empty queue leave their caller where it is.
C3_BoundedBlockingQueues == []C3_Bounded /\ [][C3_Blocking]_vars

\* The Batch Queue is full with a thread waiting to put a batch, and the
\* Transition Queue is full with an actor waiting to put a transition.
C3_Witness ==
    /\ Len(batch_queue) = 8
    /\ \E t \in Threads : builder[t].pc = "put"
    /\ Len(transition_queue) = C3_TransitionCapacity
    /\ \E a \in Actors : actor[a].pc = "put"

---------------------------------------------------------------------------
(* The warmup: one actor, batches of 1 and 2 transitions, warmup sizes     *)
(* below, between and at a multiple of the number of threads, shards of    *)
(* one and two slots, at frame/step ratios 1/2 and 1.                      *)

WarmupArgs ==
    {Args(bs, ims, ms, fsr, FALSE, 1, "linear", Tenths(10), Tenths(1), 2,
          "mse", -1, FALSE, 1) :
        bs \in 1 .. 2, ims \in {1, NumThreads + 1, 2 * NumThreads},
        ms \in {NumThreads, 2 * NumThreads + 1}, fsr \in {<<1, 2>>, <<1, 1>>}}

InitWarmup ==
    \E args \in WarmupArgs :
        Start(args, 1, Limit(MaxWarmupFrames, MaxWarmupFrames + 1, MaxSteps))

SpecWarmup == InitWarmup /\ [][Next]_vars

\* C4: a thread that is about to call memory.sample(batch_size) holds at
\* least batch_size transitions in its shard.
C4_SampleWithinCount ==
    \A t \in Threads :
        builder[t].pc = "put" => MemLen(builder[t].memory) >= cfg.args.batch_size

\* A shard count is below the warmup threshold init_memory_size/num_builders.
C5_BelowThreshold(t) ==
    MemLen(builder[t].memory) * NumThreads < cfg.args.init_memory_size

C5_PutsBatch(t) ==
    /\ builder[t].pc = "put"
    /\ builder'[t].pc = "loop"
    /\ Len(batch_queue') = Len(batch_queue) + 1

\* C5: a thread whose shard count is below init_memory_size / num_builders
\* never reaches the sampling of a batch and never puts a batch on the Batch
\* Queue; the Batch Queue grows only by the put of a thread at or above the
\* threshold.
C5_NoBatchInWarmup ==
    /\ [](\A t \in Threads : C5_BelowThreshold(t) => builder[t].pc \in {"loop", "get"})
    /\ [][/\ \A t \in Threads : C5_BelowThreshold(t) => ~C5_PutsBatch(t)
          /\ Len(batch_queue') > Len(batch_queue) =>
                \E t \in Threads : ~C5_BelowThreshold(t) /\ C5_PutsBatch(t)]_vars

\* A thread has drained transitions into its shard, is still below the
\* threshold and is back at the top of its loop, and no batch was ever put.
C5_Witness ==
    /\ \E t \in Threads :
         /\ builder[t].pc = "loop"
         /\ MemLen(builder[t].memory) >= 1
         /\ C5_BelowThreshold(t)
    /\ log.bq_put = <<>>

---------------------------------------------------------------------------
(* The exploration rate: one actor, batches of one transition, one frame   *)
(* per five builder iterations, under both schedules, rates that start at  *)
(* and below 1.0 and decays of 1 and 3 steps, so that the learner runs     *)
(* past the end of the decay.                                              *)

LearnLimit == Limit(MaxLearnFrames, MaxLearnBuilderSteps, MaxLearnSteps)

\* <<eps_start, eps_end>> in tenths, eps_start >= eps_end
EpsRanges == {<<10, 1>>, <<10, 0>>, <<8, 3>>, <<5, 1>>, <<5, 5>>}

EpsArgs ==
    {Args(1, 1, NumThreads, <<1, 5>>, FALSE, 1, method, Tenths(range[1]),
          Tenths(range[2]), decay, "mse", -1, FALSE, 1) :
        method \in SupportedEpsMethods, range \in EpsRanges, decay \in {1, 3}}

InitEps == \E args \in EpsArgs : Start(args, 1, LearnLimit)

SpecEps == InitEps /\ [][Next]_vars

\* The learner has published in the current iteration.
Published == learner.pc \in {"get", "optimize"}

C6_WritesSoFar ==
    Len(log.eps_written) = learner.steps + (IF Published THEN 1 ELSE 0)

C6_ValueOfStep ==
    Published => current_eps = get_current_eps(cfg.agent, learner.steps)

C6_OnlyLearnerWrites ==
    (current_eps' # current_eps \/ log'.eps_written # log.eps_written) =>
        /\ learner.pc = "eps" /\ learner'.pc = "get"
        /\ current_eps' = get_current_eps(cfg.agent, learner.steps)
        /\ log'.eps_written = Append(log.eps_written, current_eps')
        /\ actor' = actor /\ builder' = builder

C6_WriteBeforePop ==
    Len(log'.bq_got) > Len(log.bq_got) =>
        Len(log.eps_written) = learner.steps + 1

\* C6: only the learner writes current_eps: once in every iteration of
\* learn(), the value _get_current_eps(steps) of the iteration's step
\* counter, before the iteration takes its batch from the batch queue; no
\* step of an actor or of a builder thread changes it.
C6_LearnerPublishesEps ==
    /\ [](C6_WritesSoFar /\ C6_ValueOfStep)
    /\ [][C6_OnlyLearnerWrites /\ C6_WriteBeforePop]_vars

\* The learner is in its third iteration, has published three times and
\* waits for a batch, and an actor has acted on a published rate.
C6_Witness ==
    /\ learner.steps = 2 /\ learner.pc = "get"
    /\ Len(log.eps_written) = 3
    /\ current_eps # EpsFloat(InitialEps)
    /\ \E a \in Actors : actor[a].frame >= 1 /\ actor[a].eps = log.eps_written[2]

\* The values of the schedule for the steps the learner has reached.
ScheduleSoFar == {get_current_eps(cfg.agent, s) : s \in 0 .. learner.steps}

EpsStart == EpsFloat(cfg.agent.eps_start)
EpsEnd == EpsFloat(cfg.agent.eps_end)

\* C7: current_eps starts at eps_start, so every rate an actor has read
\* from it, also before the learner's first write, is _get_current_eps(s)
\* of a step s the learner has reached, and lies between eps_end and
\* eps_start.
C7_EpsFromSchedule ==
    \A a \in Actors :
        actor[a].frame >= 1 =>
            /\ actor[a].eps \in ScheduleSoFar
            /\ EpsLeq(EpsEnd, actor[a].eps) /\ EpsLeq(actor[a].eps, EpsStart)

\* The values current_eps has taken, in order.
EpsHistory == <<EpsFloat(InitialEps)>> \o log.eps_written

\* C8: for eps_start >= eps_end the values current_eps takes during a run
\* never increase and are never below eps_end.
C8_NonIncreasingAboveEnd ==
    /\ \A i \in 1 .. Len(EpsHistory), j \in 1 .. Len(EpsHistory) :
           i < j => EpsLeq(EpsHistory[j], EpsHistory[i])
    /\ \A i \in 2 .. Len(EpsHistory) : EpsLeq(EpsEnd, EpsHistory[i])

\* The part of C8 that holds: no write raises current_eps.
C8_NonIncreasing ==
    \A i \in 1 .. Len(EpsHistory), j \in 1 .. Len(EpsHistory) :
        i < j => EpsLeq(EpsHistory[j], EpsHistory[i])

---------------------------------------------------------------------------
(* _get_current_eps alone, as a function: the linear schedule for every    *)
(* eps_start and eps_end in tenths from 0.0 to 1.0, in either order, the   *)
(* decays and the steps below, computed once per run.                      *)

ScheduleDecays == {1, 2, 3, 100}
ScheduleSteps == {0, 1, 2, 3, 50, 100, 150}

ScheduleArgs ==
    {Args(1, 1, NumThreads, <<1, 1>>, FALSE, 1, "linear", Tenths(start),
          Tenths(end), decay, "mse", -1, FALSE, 1) :
        start \in 0 .. 10, end \in 0 .. 10, decay \in ScheduleDecays}

InitSchedule == \E args \in ScheduleArgs : Start(args, 1, Limit(0, 0, 0))

\* self._get_current_eps(steps), as learn() calls it at the given step.
ScheduleCompute(steps) ==
    /\ log.eps_written = <<>>
    /\ learner' = [learner EXCEPT !.steps = steps]
    /\ current_eps' = get_current_eps(cfg.agent, steps)
    /\ log' = [log EXCEPT !.eps_written = <<get_current_eps(cfg.agent, steps)>>]
    /\ UNCHANGED <<cfg, q_network, target_q_network, transition_queue,
                   batch_queue, actor, builder>>

NextSchedule == \E steps \in ScheduleSteps : ScheduleCompute(steps)

SpecSchedule == InitSchedule /\ [][NextSchedule]_vars

\* eps_start - (eps_start - eps_end) * step / eps_decay, in floats
LinearFormula(c, step) ==
    EpsFloat(FloatSub(c.eps_start,
                      FloatDivInt(FloatMulInt(FloatSub(c.eps_start, c.eps_end),
                                              step),
                                  c.eps_decay)))

\* C9: the linear schedule gives eps_start at step 0, eps_end at step
\* eps_decay and at every later step, and
\* eps_start - (eps_start - eps_end) * step / eps_decay in between; with
\* eps_start 1.0, eps_end 0.1 and eps_decay 100 it gives 0.55 at step 50 and
\* 0.1 at step 150.
C9_LinearSchedule ==
    log.eps_written # <<>> =>
        LET c == cfg.agent
            step == learner.steps
        IN  /\ step = 0 => current_eps = EpsFloat(c.eps_start)
            /\ step >= c.eps_decay => current_eps = EpsFloat(c.eps_end)
            /\ step <= c.eps_decay => current_eps = LinearFormula(c, step)
            /\ (c.eps_start = Tenths(10) /\ c.eps_end = Tenths(1)
                  /\ c.eps_decay = 100 /\ step = 50) =>
                   current_eps = EpsFloat(FloatDivInt(FloatFromInt(55), 100))

\* The same at a step up to eps_decay in the cases where it holds: step 0,
\* and the 0.55 of the example.
C9_StartAndInterior ==
    log.eps_written # <<>> =>
        LET c == cfg.agent
            step == learner.steps
        IN  /\ step = 0 => current_eps = EpsFloat(c.eps_start)
            /\ step <= c.eps_decay => current_eps = LinearFormula(c, step)
            /\ (c.eps_start = Tenths(10) /\ c.eps_end = Tenths(1)
                  /\ c.eps_decay = 100 /\ step = 50) =>
                   current_eps = EpsFloat(FloatDivInt(FloatFromInt(55), 100))

\* The example of C9 at step 150: the schedule gives 0.1.
C9_Example150 ==
    (/\ log.eps_written # <<>>
     /\ cfg.agent.eps_start = Tenths(10) /\ cfg.agent.eps_end = Tenths(1)
     /\ cfg.agent.eps_decay = 100 /\ learner.steps = 150) =>
        current_eps = EpsFloat(Tenths(1))

---------------------------------------------------------------------------
(* The target network: the runs of the learner with and without            *)
(* double_dqn, for every target_update_freq in 1..MaxTargetUpdateFreq.     *)

TargetArgs ==
    {Args(1, 1, NumThreads, <<1, 5>>, double_dqn, target_update_freq, "linear",
          Tenths(10), Tenths(1), 2, "mse", -1, FALSE, 1) :
        double_dqn \in BOOLEAN, target_update_freq \in 1 .. MaxTargetUpdateFreq}

InitTarget == \E args \in TargetArgs : Start(args, 1, LearnLimit)

SpecTarget == InitTarget /\ [][Next]_vars

\* The step of the most recent sync.
LastSync(c, steps) == steps - (steps % c.target_update_freq)

\* The learner is past the sync of its iteration.
PastSync == learner.pc \in {"eps", "get", "optimize"}

C10_TargetAtRead ==
    (cfg.agent.double_dqn /\ PastSync) =>
        /\ q_network = learner.steps
        /\ target_q_network = LastSync(cfg.agent, learner.steps)

C10_SyncCopies ==
    (/\ learner.pc = "sync" /\ learner'.pc = "eps"
     /\ cfg.agent.double_dqn
     /\ learner.steps % cfg.agent.target_update_freq = 0) =>
        target_q_network' = q_network

C10_OnlySync ==
    target_q_network' # target_q_network =>
        /\ learner.pc = "sync" /\ learner'.pc = "eps"
        /\ cfg.agent.double_dqn
        /\ learner.steps % cfg.agent.target_update_freq = 0
        /\ target_q_network' = q_network

\* C10: with double_dqn, every iteration of learn() whose step counter is a
\* multiple of target_update_freq (step 0 included) first copies the live
\* parameters into the target network; the target parameters change at no
\* other time, so when _optimize reads them they are the live parameters of
\* the most recent sync, steps % target_update_freq gradient steps behind.
C10_TargetSync ==
    /\ []C10_TargetAtRead
    /\ [][C10_SyncCopies /\ C10_OnlySync]_vars

\* In its fourth iteration the learner is about to read a target network
\* that was last synced at step 2 and is one gradient step behind.
C10_Witness ==
    /\ cfg.agent.double_dqn /\ cfg.agent.target_update_freq = 2
    /\ learner.pc = "optimize" /\ learner.steps = 3
    /\ target_q_network = 2 /\ q_network = 3

---------------------------------------------------------------------------
(* The targets of _optimize (lines 187-198), as a function of one batch.   *)
(* The tensors are float32.  A value is a finite number, kept as an exact  *)
(* rational, an infinity or NaN; the finite values drawn below are small   *)
(* integers and dyadic discounts, on which float32 arithmetic is exact     *)
(* (-0.0 and 0.0 compare equal and are one value here).  A network is the  *)
(* table of its outputs on the next observations of the batch.             *)

\* the finite action-values drawn are 0 .. MaxQ, the rewards 1 .. MaxQ.
MaxQ == 1
\* the number of actions (columns of the network's output).
NumActions == 2

Fin(x) == [nan |-> FALSE, inf |-> 0, val |-> x]
PosInf == [nan |-> FALSE, inf |-> 1, val |-> <<0, 1>>]
NegInf == [nan |-> FALSE, inf |-> -1, val |-> <<0, 1>>]
NaN == [nan |-> TRUE, inf |-> 0, val |-> <<0, 1>>]

IsFinite(x) == ~x.nan /\ x.inf = 0

Sign(x) ==
    IF x.inf # 0 THEN x.inf
    ELSE IF x.val[1] > 0 THEN 1 ELSE IF x.val[1] < 0 THEN -1 ELSE 0

RAdd(x, y) == Rat(x[1] * y[2] + y[1] * x[2], x[2] * y[2])

\* x * y: NaN spreads, and infinity times zero is NaN.
TensorMul(x, y) ==
    IF x.nan \/ y.nan THEN NaN
    ELSE IF x.inf # 0 \/ y.inf # 0
         THEN (IF Sign(x) * Sign(y) = 0 THEN NaN
               ELSE IF Sign(x) * Sign(y) > 0 THEN PosInf ELSE NegInf)
         ELSE Fin(RMul(x.val, y.val))

\* x + y: NaN spreads, and the sum of opposite infinities is NaN.
TensorAdd(x, y) ==
    IF x.nan \/ y.nan THEN NaN
    ELSE IF x.inf # 0 /\ y.inf # 0
         THEN (IF x.inf = y.inf THEN x ELSE NaN)
         ELSE IF x.inf # 0 THEN x
         ELSE IF y.inf # 0 THEN y
         ELSE Fin(RAdd(x.val, y.val))

\* x < y, for values that are not NaN.
TensorLess(x, y) ==
    IF x.inf # 0 \/ y.inf # 0 THEN x.inf < y.inf
    ELSE RLt(x.val, y.val)

\* row.max()[1]: the indices max() may return.  A NaN in the row is the
\* maximum; among equal maxima the index is the kernel's choice.
ArgMax(row) ==
    IF \E i \in DOMAIN row : row[i].nan
    THEN {i \in DOMAIN row : row[i].nan}
    ELSE {i \in DOMAIN row : \A j \in DOMAIN row : ~TensorLess(row[i], row[j])}

\* futures, one value per transition, before the mask: with double_dqn
\* q_next_target.gather(1, q_next.max(dim=1)[1]), else q_next.max(dim=1)[0].
\* The set of results, one for each choice of max().
Futures(c, q_next, q_next_target) ==
    {[j \in DOMAIN q_next |->
         IF c.double_dqn THEN q_next_target[j][pick[j]] ELSE q_next[j][pick[j]]] :
     pick \in {p \in [DOMAIN q_next -> 1 .. NumActions] :
                  \A j \in DOMAIN q_next : p[j] \in ArgMax(q_next[j])}}

\* Targets in which a terminal transition keeps its bootstrapped value.
Targets_NoMask(c, futures, reward_batch, done_batch) ==
    [j \in DOMAIN futures |->
        TensorAdd(reward_batch[j], TensorMul(c.discount, futures[j]))]

\* futures = futures * (1 - done_batch)
\* target_q = reward_batch + self._discount * futures
Targets(c, futures, reward_batch, done_batch) ==
    [j \in DOMAIN futures |->
        TensorAdd(reward_batch[j],
                  TensorMul(c.discount,
                            TensorMul(futures[j],
                                      TensorAdd(Fin(RInt(1)),
                                                Fin(RInt(-done_batch[j]))))))]

\* q_next = self._q_network(next_obs_batch), q_next_target likewise, and
\* the targets of the batch the learner holds.
LearnerTargetQ ==
    LET next_obs_batch == learner.batch[1]
        q_next == [j \in DOMAIN next_obs_batch |-> q_network[next_obs_batch[j]]]
        q_next_target ==
            [j \in DOMAIN next_obs_batch |->
                IF cfg.agent.double_dqn THEN target_q_network[next_obs_batch[j]]
                ELSE <<>>]
    IN  /\ learner.pc = "optimize"
        /\ \E futures \in Futures(cfg.agent, q_next, q_next_target) :
             learner' = [learner EXCEPT
                           !.futures = futures,
                           !.target_q = Targets(cfg.agent, futures,
                                                learner.batch[3], learner.batch[5]),
                           !.pc = "loss"]
        /\ UNCHANGED <<cfg, current_eps, q_network, target_q_network,
                       transition_queue, batch_queue, actor, builder, log>>

\* The agent with its discount.
WithDiscount(agent, discount) ==
    [f \in DOMAIN agent \cup {"discount"} |->
        IF f = "discount" THEN discount ELSE agent[f]]

\* what a network may output: finite values, and the values of a network
\* that has diverged.
QValues == {Fin(RInt(v)) : v \in 0 .. MaxQ} \cup {PosInf, NegInf, NaN}
\* discounts on which the products with the finite values are exact, and
\* 0.9, drawn for terminal transitions only (it is multiplied by zero).
Discounts(done) ==
    {Fin(<<1, 2>>), Fin(<<1, 1>>)} \cup (IF done THEN {Fin(<<9, 10>>)} ELSE {})

\* The learner holds a batch of one transition; the networks are any tables
\* of action-values for its next observation.
InitTargetQ ==
    \E double_dqn \in BOOLEAN :
      LET args == Args(1, 1, NumThreads, <<1, 1>>, double_dqn, 1, "linear",
                       Tenths(10), Tenths(1), 2, "mse", -1, FALSE, 1)
          agent == FastDQNAgent(args)
          obs == <<0, 1, 0>>
          next_obs == <<0, 1, 1>>
      IN  /\ current_eps = EpsFloat(InitialEps)
          /\ transition_queue = <<>>
          /\ batch_queue = <<>>
          /\ actor = [a \in {0} |->
                        [pc |-> "reset", episode |-> 0, frame |-> 0,
                         observation |-> <<>>, action |-> 0, reward |-> 0,
                         next_observation |-> <<>>, done |-> FALSE,
                         episode_id |-> 0, eps |-> EpsFloat(InitialEps)]]
          /\ builder = [t \in Threads |->
                          [pc |-> "loop", steps |-> 0, todo |-> 0,
                           memory |-> ReplayMemory(ShardCapacity(agent))]]
          /\ log = [tq_put |-> {}, pushed |-> [t \in Threads |-> <<>>],
                    bq_put |-> <<>>, bq_got |-> <<>>, eps_written |-> <<>>,
                    saved |-> <<>>]
          /\ \E done \in BOOLEAN, reward \in {Fin(RInt(v)) : v \in 1 .. MaxQ} :
               /\ learner = [pc |-> "optimize", steps |-> 0,
                             batch |-> transitions_to_batch(
                                 <<Transition(<<obs, 0, reward, next_obs, done>>)>>),
                             futures |-> <<>>, target_q |-> <<>>]
               /\ \E discount \in Discounts(done) :
                    cfg = [agent |-> WithDiscount(agent, discount),
                           args |-> args, num_actor_workers |-> 1,
                           limit |-> Limit(1, 1, 1)]
          /\ \E q_next \in [1 .. NumActions -> QValues] :
               q_network = [o \in {next_obs} |-> q_next]
          /\ IF double_dqn
             THEN \E q_next_target \in [1 .. NumActions -> QValues] :
                    target_q_network = [o \in {next_obs} |-> q_next_target]
             ELSE target_q_network = -1

SpecTargetQ == InitTargetQ /\ [][LearnerTargetQ]_vars

\* The fields of the one transition of the batch, once its target is computed.
TQDone == learner.batch[5][1] = 1
TQReward == learner.batch[3][1]
TQLive == q_network[learner.batch[1][1]]
TQFuture ==
    IF cfg.agent.double_dqn
    THEN {target_q_network[learner.batch[1][1]][i] : i \in ArgMax(TQLive)}
    ELSE {v \in {TQLive[i] : i \in 1 .. NumActions} :
             \/ v.nan
             \/ \A i \in 1 .. NumActions : ~TQLive[i].nan /\ ~TensorLess(v, TQLive[i])}

\* C11 as stated: the future value is the target network's value at a
\* maximising action of the live network (double DQN) or the live network's
\* maximum; a transition that is not terminal has the target reward +
\* discount * future, and a terminal one has the target reward exactly,
\* whatever the next-state action-values are.
C11_TerminalTargetIsReward ==
    learner.pc = "loss" =>
        /\ learner.futures[1] \in TQFuture
        /\ ~TQDone => learner.target_q[1] =
               TensorAdd(TQReward, TensorMul(cfg.agent.discount, learner.futures[1]))
        /\ TQDone => learner.target_q[1] = TQReward

\* C11, amended: the same, the target of a terminal transition being the
\* reward exactly whenever the future value is finite.
C11_TargetQ ==
    learner.pc = "loss" =>
        /\ learner.futures[1] \in TQFuture
        /\ ~TQDone => learner.target_q[1] =
               TensorAdd(TQReward, TensorMul(cfg.agent.discount, learner.futures[1]))
        /\ (TQDone /\ IsFinite(learner.futures[1])) => learner.target_q[1] = TQReward

\* Double DQN off, discount 0.9, reward 1.0, done, a live maximum of 1.0:
\* the target is 1.0.
C11_Witness ==
    /\ learner.pc = "loss"
    /\ ~cfg.agent.double_dqn /\ cfg.agent.discount = Fin(<<9, 10>>)
    /\ TQDone /\ TQReward = Fin(RInt(1))
    /\ learner.futures = <<Fin(RInt(1))>>
    /\ learner.target_q = <<Fin(RInt(1))>>

---------------------------------------------------------------------------
(* The learner started from a saved model 'agent.model-N', with double_dqn *)
(* and a checkpoint directory.                                             *)

\* the N of the models loaded are 1 .. MaxModelStep.
MaxModelStep == 3

ResumeArgs ==
    {Args(1, 1, NumThreads, <<1, 5>>, TRUE, target_update_freq, "linear",
          Tenths(10), Tenths(1), 4, "mse", model_step, TRUE, save_model_freq) :
        target_update_freq \in 1 .. 2, save_model_freq \in 1 .. 2,
        model_step \in 1 .. MaxModelStep}

InitResume == \E args \in ResumeArgs : Start(args, 1, LearnLimit)

SpecResume == InitResume /\ [][Next]_vars

\* C12: after loading agent.model-N the learner's step counter resumes at
\* N: its first iteration syncs the target network iff N is a multiple of
\* target_update_freq, publishes the exploration rate of step N, and every
\* checkpoint it writes has a key greater than N.
C12_ResumesAtN ==
    LET n == cfg.args.init_model_path
    IN  n >= 0 =>
          /\ learner.pc \in {"eps", "get", "optimize"} => learner.steps >= n
          /\ log.eps_written # <<>> =>
                 log.eps_written[1] = get_current_eps(cfg.agent, n)
          /\ \A i \in 1 .. Len(log.saved) : log.saved[i] > n

---------------------------------------------------------------------------
(* Checkpoints: the runs of the learner with and without a checkpoint      *)
(* directory, for every save_model_freq in 1..MaxSaveFreq.                 *)

MaxSaveFreq == 3

CheckpointArgs ==
    {Args(1, 1, NumThreads, <<1, 5>>, FALSE, 1, "linear", Tenths(10),
          Tenths(1), 2, "mse", -1, save_model_dir, save_model_freq) :
        save_model_dir \in BOOLEAN, save_model_freq \in 1 .. MaxSaveFreq}

InitCheckpoint == \E args \in CheckpointArgs : Start(args, 1, LearnLimit)

SpecCheckpoint == InitCheckpoint /\ [][Next]_vars

\* The step that increments the counter writes 'agent.model-s' for the new
\* count s iff a directory is configured and s is a positive multiple of
\* save_model_freq; no other step writes a checkpoint.
C13_SavedIffDue ==
    IF learner.pc = "optimize" /\ learner'.pc = "sync"
    THEN LET s == learner'.steps
         IN  /\ s = learner.steps + 1
             /\ IF cfg.agent.save_model_dir /\ s > 0
                   /\ s % cfg.agent.save_model_freq = 0
                THEN log'.saved = Append(log.saved, s)
                ELSE log'.saved = log.saved
    ELSE log'.saved = log.saved

\* No checkpoint is keyed 0 and the keys are strictly increasing.
C13_KeysIncrease ==
    /\ \A i \in 1 .. Len(log.saved) : log.saved[i] > 0
    /\ \A i \in 1 .. Len(log.saved), j \in 1 .. Len(log.saved) :
           i < j => log.saved[i] < log.saved[j]

\* C13: checkpoints follow the step counter: when the learner increments
\* the counter to s, the parameters are saved in that iteration iff a
\* directory is configured and s is a positive multiple of save_model_freq,
\* under the key agent.model-s; none is written for step 0, and successive
\* keys are strictly increasing.
C13_Checkpoints ==
    /\ [][C13_SavedIffDue]_vars
    /\ []C13_KeysIncrease

\* Every second step is saved: after four steps the keys are 2 and 4.
C13_Witness ==
    /\ cfg.agent.save_model_dir /\ cfg.agent.save_model_freq = 2
    /\ learner.steps = 4 /\ learner.pc = "sync"
    /\ log.saved = <<2, 4>>

---------------------------------------------------------------------------
(* Unsupported kinds: the runs of the learner with a supported and an      *)
(* unsupported eps_method and loss_type, with and without double_dqn.      *)

UnsupportedArgs ==
    {Args(1, 1, NumThreads, <<1, 5>>, double_dqn, 1, eps_method, Tenths(10),
          Tenths(1), 2, loss_type, -1, TRUE, 1) :
        double_dqn \in BOOLEAN, eps_method \in {"linear", "cosine"},
        loss_type \in {"mse", "huber"}}

InitUnsupported == \E args \in UnsupportedArgs : Start(args, 1, LearnLimit)

SpecUnsupported == InitUnsupported /\ [][Next]_vars

\* C14: with an eps_method other than 'exponential' and 'linear' the learner
\* fails at the first use of the schedule, at step 0: it never publishes an
\* exploration rate (current_eps keeps its initial 1.0), never takes a
\* batch from the batch queue and never updates the parameters.
C14_UnsupportedSchedule ==
    cfg.agent.eps_method \notin {"exponential", "linear"} =>
        /\ learner.pc \in {"sync", "eps", "crashed"}
        /\ learner.steps = 0
        /\ log.eps_written = <<>> /\ current_eps = EpsFloat(InitialEps)
        /\ log.bq_got = <<>>
        /\ q_network = 0 /\ target_q_network \in {-1, 0}
        /\ log.saved = <<>>

\* The learner has failed on the schedule while a batch waits in the queue.
C14_Witness ==
    /\ cfg.agent.eps_method = "cosine"
    /\ learner.pc = "crashed"
    /\ batch_queue # <<>>

\* C15: with a loss_type other than 'mse' and 'smooth_l1' the learner fails
\* in its first optimization step, before a gradient is computed or
\* applied: the parameters and the step counter are what they were.
C15_UnsupportedLoss ==
    (/\ cfg.agent.loss_type \notin {"mse", "smooth_l1"}
     /\ cfg.agent.eps_method \in {"exponential", "linear"}) =>
        /\ learner.pc \in {"sync", "eps", "get", "optimize", "crashed"}
        /\ learner.steps = 0
        /\ q_network = 0 /\ target_q_network \in {-1, 0}
        /\ log.saved = <<>>
        /\ Len(log.bq_got) <= 1
        /\ learner.pc = "crashed" => Len(log.bq_got) = 1

\* The learner has failed on the loss of the first batch it took.
C15_Witness ==
    /\ cfg.agent.loss_type = "huber" /\ cfg.agent.eps_method = "linear"
    /\ learner.pc = "crashed"
    /\ Len(log.bq_got) = 1 /\ Len(log.eps_written) = 1

---------------------------------------------------------------------------
(* The shards of the threads, in the runs that follow the warmup           *)
(* (memory_size a multiple of the number of threads, and not).             *)

RECURSIVE SumCapacity(_)
\* The capacities of the shards of threads 0..n-1 together.
SumCapacity(n) ==
    IF n = 0 THEN 0 ELSE SumCapacity(n - 1) + builder[n - 1].memory.capacity

\* Every shard has the capacity memory_size / num_builders, rounded down,
\* the capacities together do not exceed memory_size, a shard holds only
\* transitions its own thread inserted, and none that another shard holds.
C16_ShardsApart ==
    /\ \A t \in Threads :
         LET m == builder[t].memory
         IN  /\ NumThreads * m.capacity <= cfg.args.memory_size
             /\ cfg.args.memory_size < NumThreads * (m.capacity + 1)
             /\ MemLen(m) <= m.capacity
             /\ Range(m.memory) \subseteq
                    {Transition(i) : i \in Range(log.pushed[t])}
    /\ SumCapacity(NumThreads) <= cfg.args.memory_size
    /\ \A t \in Threads, u \in Threads :
         t # u => Range(builder[t].memory.memory)
                      \cap Range(builder[u].memory.memory) = {}

\* A step that changes the shard of a thread is the push of that thread
\* (it is at its transition_queue.get()), and it leaves every other thread
\* and its shard as they were.
C16_OwnerPushes ==
    \A t \in Threads :
        builder'[t].memory # builder[t].memory =>
            /\ builder[t].pc = "get"
            /\ builder'[t].memory =
                   MemPush(builder[t].memory, Head(transition_queue))
            /\ \A u \in Threads : u # t => builder'[u] = builder[u]

\* C16: each Batch Builder owns a private Replay Shard of capacity
\* memory_size / num_builders: only its own thread pushes to it, no shard
\* holds what another holds, and the capacities of all shards together do
\* not exceed memory_size.
C16_PrivateShards ==
    /\ []C16_ShardsApart
    /\ [][C16_OwnerPushes]_vars

\* memory_size is not a multiple of the number of threads, and two shards
\* hold transitions.
C16_Witness ==
    /\ cfg.args.memory_size % NumThreads # 0
    /\ \A t \in 0 .. 1 : MemLen(builder[t].memory) >= 1

---------------------------------------------------------------------------
(* The batches the threads put on the Batch Queue, in the runs that follow *)
(* the warmup (batches of one and two transitions, shards of one and two   *)
(* slots, in which transitions are overwritten).                           *)

\* Row j of a batch, as the transition it was made from.
BatchRow(batch, j) ==
    [observation |-> batch[2][j], action |-> batch[4][j],
     reward |-> batch[3][j], next_observation |-> batch[1][j],
     done |-> batch[5][j] = 1]

\* Thread t completes the put of a batch in this step.
C18_Puts(t) ==
    /\ builder[t].pc = "put" /\ builder'[t].pc = "loop"

\* The batch a thread puts has batch_size rows in each of its five fields,
\* and every row is a transition its own shard holds at that moment; the
\* Batch Queue grows by nothing else.
C18_PutFromOwnShard ==
    /\ \A t \in Threads :
         C18_Puts(t) =>
             /\ Len(batch_queue') = Len(batch_queue) + 1
             /\ LET batch == batch_queue'[Len(batch_queue')]
                IN  /\ Len(batch) = 5
                    /\ \A f \in 1 .. 5 : Len(batch[f]) = cfg.args.batch_size
                    /\ \A j \in 1 .. cfg.args.batch_size :
                         BatchRow(batch, j) \in Range(builder[t].memory.memory)
    /\ Len(batch_queue') > Len(batch_queue) => \E t \in Threads : C18_Puts(t)

\* C18: every batch a builder pushes contains exactly batch_size
\* transitions, each stored in that builder's own shard at the moment of
\* sampling: never one already overwritten, never one of another shard.
C18_BatchFromOwnShard == [][C18_PutFromOwnShard]_vars

\* A batch of two different transitions has been put.
C18_Witness ==
    /\ cfg.args.batch_size = 2
    /\ log.bq_put # <<>>
    /\ BatchRow(log.bq_put[1], 1) # BatchRow(log.bq_put[1], 2)

\* A batch has been put by a thread whose one-slot shard had been
\* overwritten: it holds the later transition.
C18_WitnessOverwritten ==
    \E t \in Threads :
        /\ builder[t].memory.capacity = 1 /\ Len(log.pushed[t]) = 2
        /\ builder[t].pc = "loop"
        /\ log.bq_put # <<>>
        /\ BatchRow(log.bq_put[Len(log.bq_put)], 1) = Transition(log.pushed[t][2])

---------------------------------------------------------------------------
(* Progress of the pipeline.  One actor, one frame per builder iteration,  *)
(* and a run long enough for every thread to fill its shard: shards that   *)
(* are warm after their first transition, and shards whose capacity        *)
(* int(memory_size / num_threads) is below the warmup threshold            *)
(* init_memory_size / num_threads (memory_size = init_memory_size, not a   *)
(* multiple of the number of threads).  Every process and thread that can  *)
(* take a step eventually takes one.                                       *)

\* env.step() calls, and iterations of the threads, in these runs.
MaxStallFrames == 6

StallArgs ==
    {Args(1, 1, NumThreads, <<1, 1>>, FALSE, 1, "linear", Tenths(10),
          Tenths(1), 2, "mse", -1, FALSE, 1),
     Args(1, 2 * NumThreads + 1, 2 * NumThreads + 1, <<1, 1>>, FALSE, 1,
          "linear", Tenths(10), Tenths(1), 2, "mse", -1, FALSE, 1)}

InitStall ==
    \E args \in StallArgs :
        Start(args, 1, Limit(MaxStallFrames, MaxStallFrames, MaxSteps))

\* The operating system runs every process and thread that is not blocked.
Fairness ==
    /\ WF_vars(\E a \in Actors : ActorReset(a))
    /\ WF_vars(\E a \in Actors : ActorStep(a))
    /\ WF_vars(\E a \in Actors : ActorPut(a))
    /\ \A t \in Threads :
         WF_vars(BuilderLoop(t)) /\ WF_vars(BuilderGet(t)) /\ WF_vars(BuilderPut(t))
    /\ WF_vars(LearnerSync)
    \* weak fairness of LearnerEps, which is enabled exactly when the
    \* learner is at it and then leaves it
    /\ []<>(learner.pc # "eps")
    /\ WF_vars(LearnerGet) /\ WF_vars(LearnerOptimize)

SpecStall == InitStall /\ [][Next]_vars /\ Fairness

\* C17: the pipeline does not stall on its own: under fair scheduling the
\* learner is never blocked forever on the Batch Queue; it completes
\* optimization steps, so in particular its first one, in every valid
\* configuration.
C17_LearnerCompletesSteps == <>(learner.steps >= 1)

\* The learner waits for a batch that no thread will ever produce: the
\* Batch Queue is empty and every thread is dead or has a full shard that
\* is still below the warmup threshold (a full shard keeps its count).
C17_BlockedForever ==
    /\ learner.pc = "get" /\ batch_queue = <<>>
    /\ \A t \in Threads :
         \/ builder[t].pc = "crashed"
         \/ /\ builder[t].pc \in {"loop", "get"}
            /\ MemLen(builder[t].memory) = builder[t].memory.capacity
            /\ InWarmup(cfg.agent, builder[t].memory)

\* C17, as a property of the reachable states: the learner is never
\* blocked forever on the Batch Queue.
C17_NeverBlockedForever == ~C17_BlockedForever

---------------------------------------------------------------------------
(* _get_current_eps alone, for the exponential schedule: every eps_start   *)
(* and eps_end in tenths from 0.0 to 1.0, the decays and the steps below   *)
(* (the last steps are past the underflow of math.exp for both decays).    *)

ExpScheduleSteps ==
    {0, 1, 2, 3, ExpUnderflow * 3 - 1, ExpUnderflow * 3, ExpUnderflow * 3 + 1}

InitExpSchedule ==
    \E start \in 0 .. 10, end \in 0 .. 10, decay \in {1, 3} :
        Start(Args(1, 1, NumThreads, <<1, 1>>, FALSE, 1, "exponential",
                   Tenths(start), Tenths(end), decay, "mse", -1, FALSE, 1),
              1, Limit(0, 0, 0))

SpecExpSchedule ==
    InitExpSchedule /\ [][\E steps \in ExpScheduleSteps : ScheduleCompute(steps)]_vars

\* x < y for exploration rates, where the order is decided.
C19_Less(x, y) == EpsLeq(x, y) /\ x # y

\* C19: the exponential schedule gives eps_start at step 0; when
\* eps_start > eps_end its value at every later step is strictly smaller
\* than at the step computed, and its value at every step is above eps_end.
C19_ExponentialSchedule ==
    log.eps_written # <<>> =>
        LET c == cfg.agent
            step == learner.steps
        IN  /\ step = 0 => current_eps = EpsFloat(c.eps_start)
            /\ FloatLt(c.eps_end, c.eps_start) =>
                 /\ \A later \in ExpScheduleSteps :
                      later > step =>
                          C19_Less(get_current_eps(c, later), current_eps)
                 /\ C19_Less(EpsFloat(c.eps_end), current_eps)

\* The value at step 0 alone.
C19_StartsAtEpsStart ==
    (log.eps_written # <<>> /\ learner.steps = 0) =>
        current_eps = EpsFloat(cfg.agent.eps_start)

\* The part that holds: the value never grows with the step and is never
\* below eps_end, when eps_start > eps_end.
C19_NonIncreasing ==
    (log.eps_written # <<>> /\ FloatLt(cfg.agent.eps_end, cfg.agent.eps_start)) =>
        /\ \A later \in ExpScheduleSteps :
             later > learner.steps =>
                 EpsLeq(get_current_eps(cfg.agent, later), current_eps)
        /\ learner.steps > 0 => EpsLeq(EpsFloat(cfg.agent.eps_end), current_eps)

---------------------------------------------------------------------------
(* The actors with an environment that ends an episode whenever it         *)
(* chooses: two actors, two frames per builder iteration, and one builder  *)
(* iteration, which yields the learner's batch.                            *)

\* env.step(action) with any done.
ActorStepAny(a) == ActorStepIn(a, ActionSpace, BOOLEAN)

NextActor ==
    \/ \E a \in Actors : ActorReset(a)
    \/ \E a \in Actors : ActorStepAny(a)
    \/ \E a \in Actors : ActorPut(a)
    \/ \E t \in Threads : BuilderLoop(t)
    \/ \E t \in Threads : BuilderGet(t)
    \/ \E t \in Threads : BuilderPut(t)
    \/ LearnerSync
    \/ LearnerEps
    \/ LearnerGet
    \/ LearnerOptimize

InitActor ==
    Start(PipelineArgs(<<2, 1>>), 2, Limit(MaxFrames, 1, MaxSteps))

SpecActor == InitActor /\ [][NextActor]_vars

\* The transitions actor a has put so far: one for each env.step() it has
\* made, but the one it is about to put.
C20_NumPut(a) == actor[a].frame - (IF actor[a].pc = "put" THEN 1 ELSE 0)

\* The transitions put that came from the k-th env.step() of actor a (the
\* environment numbers the observations it returns).
C20_PutOfStep(a, k) ==
    {x \in log.tq_put : x[4][1] = a /\ x[4][3] = k}

\* The transition of the k-th env.step() of actor a.
C20_Put(a, k) == Transition(CHOOSE x \in C20_PutOfStep(a, k) : TRUE)

\* C20: an actor puts exactly one transition per environment step, before
\* it advances its observation: the first transition of an episode carries
\* the observation reset() returned, every later one the next_observation
\* of the transition before it, a transition with done is the last of its
\* episode, and episode_id is the number of transitions with done the actor
\* has put.
C20_ActorTransitions ==
    \A a \in Actors :
        LET n == C20_NumPut(a)
        IN  /\ \A k \in 1 .. n : Cardinality(C20_PutOfStep(a, k)) = 1
            /\ {x \in log.tq_put : x[4][1] = a /\ x[4][3] \notin 1 .. n} = {}
            /\ n >= 1 => C20_Put(a, 1).observation = <<a, 1, 0>>
            /\ \A k \in 2 .. n :
                 LET prev == C20_Put(a, k - 1)
                     this == C20_Put(a, k)
                 IN  IF prev.done
                     THEN \* a new episode, from the observation of reset()
                          this.observation = <<a, prev.observation[2] + 1, k - 1>>
                     ELSE /\ this.observation = prev.next_observation
                          /\ this.observation[2] = prev.observation[2]
            /\ actor[a].episode_id
                 = Cardinality({k \in 1 .. n : C20_Put(a, k).done})
            /\ actor[a].pc \in {"step", "put"} =>
                 actor[a].observation =
                     IF n = 0 \/ C20_Put(a, n).done
                     THEN <<a, actor[a].episode, n>>
                     ELSE C20_Put(a, n).next_observation

\* An actor has put the transitions of three steps: an episode of two
\* steps, and the first step of its second episode.
C20_Witness ==
    \E a \in Actors :
        /\ C20_NumPut(a) = 3
        /\ ~C20_Put(a, 1).done /\ C20_Put(a, 2).done /\ ~C20_Put(a, 3).done
        /\ actor[a].episode_id = 1

----------------------------------------------------------------------------
(* C21: what a step of actor_worker (lines 57-72) writes.                  *)

\* The shards of the batch threads
C21_Shards == [t \in Threads |-> builder[t].memory]

\* A step of an actor: its position or its local variables change
C21_ActorStep == actor' # actor

\* The one put of an actor step: the transition of the actor that moved
C21_OnePut ==
    \E a \in Actors :
        /\ actor[a].pc = "put"
        /\ actor'[a] # actor[a]
        /\ transition_queue' =
               Append(transition_queue,
                      <<actor[a].observation, actor[a].action, actor[a].reward,
                        actor[a].next_observation, actor[a].done>>)

C21_ActorWritesOnlyQueue ==
    C21_ActorStep =>
        /\ q_network' = q_network
        /\ target_q_network' = target_q_network
        /\ current_eps' = current_eps
        /\ C21_Shards' = C21_Shards
        /\ batch_queue' = batch_queue
        /\ transition_queue' = transition_queue \/ C21_OnePut

C21_LearnerWritesParameters ==
    q_network' # q_network =>
        /\ learner.pc = "optimize"
        /\ learner'.steps = learner.steps + 1
        /\ actor' = actor

\* C21: a step of an actor leaves the parameters of the value function, the
\* parameters of the target network, the shared epsilon, every shard and the
\* batch queue unchanged, and changes the transition queue by at most one
\* put of its own transition; the parameters of the value function change
\* only in the learner's optimization step.
C21_ActorEffect ==
    [][C21_ActorWritesOnlyQueue /\ C21_LearnerWritesParameters]_vars

\* An actor has put a transition and has stepped again after the learner
\* changed the parameters.
C21_Witness ==
    /\ q_network >= 1
    /\ transition_queue # <<>>
    /\ \E a \in Actors : actor[a].pc = "put" /\ actor[a].frame >= 2

----------------------------------------------------------------------------
(* The drain of _prepare_batch (lines 243-256) at frame/step ratios below, *)
(* at and above 1, integral or not, with thresholds of one and of two      *)
(* transitions per shard and one actor.                                    *)

RatioArgs ==
    {Args(1, run[1], 2 * NumThreads + 1, run[2], FALSE, 1, "linear",
          Tenths(10), Tenths(1), 2, "mse", -1, FALSE, 1) :
        run \in {<<1, <<1, 2>>>>, <<1, <<2, 5>>>>, <<1, <<1, 1>>>>,
                 <<1, <<3, 2>>>>, <<1, <<2, 1>>>>, <<NumThreads + 1, <<1, 1>>>>}}

InitRatio ==
    \E args \in RatioArgs :
        Start(args, 1, Limit(MaxWarmupFrames, MaxFrames, MaxSteps))

SpecRatio == InitRatio /\ [][Next]_vars

\* Transitions thread t has pushed into its shard in its current iteration,
\* the one counted by steps.
C22_PushedThisIteration(t, frames_per_step) ==
    Len(log.pushed[t]) - frames_per_step * (builder[t].steps - 1)

\* C22 as stated: at frame_step_ratio >= 1 a thread that is past
\* the drain of an iteration has pushed frame_step_ratio transitions in
\* each of its iterations.
C22_PopsFrameStepRatio ==
    \A t \in Threads :
        (/\ ~FrameStepRatioBelowOne(cfg.agent)
         /\ builder[t].steps >= 1
         /\ builder[t].pc # "get")
        => Len(log.pushed[t]) * cfg.agent.frame_step_ratio[2]
               = builder[t].steps * cfg.agent.frame_step_ratio[1]

C22_DrainedBeforeTest ==
    \A t \in Threads :
        LET frames_per_step == RTrunc(cfg.agent.frame_step_ratio)
        IN  (~FrameStepRatioBelowOne(cfg.agent) /\ builder[t].steps >= 1)
            => IF builder[t].pc = "get"
               THEN C22_PushedThisIteration(t, frames_per_step)
                        = frames_per_step - builder[t].todo
               ELSE C22_PushedThisIteration(t, frames_per_step)
                        = frames_per_step

\* A thread that has passed the warmup test once passes it in every later
\* iteration: the count of its shard never decreases, and an iteration
\* that ends in 'continue' ends below the threshold.
C22_EveryIterationOnceWarm ==
    \A t \in Threads :
        /\ MemLen(builder'[t].memory) >= MemLen(builder[t].memory)
        /\ (/\ builder[t].pc = "get"
            /\ builder'[t].pc = "loop")
           => InWarmup(cfg.agent, builder'[t].memory)

\* C22: at frame_step_ratio >= 1 every iteration of a thread pops
\* int(frame_step_ratio) transitions and pushes each of them into its shard
\* before the warmup test, and a thread that has put a batch puts one in
\* every later iteration, so int(frame_step_ratio) transitions enter its
\* shard between two consecutive batches.
C22_FramesPerStep ==
    []C22_DrainedBeforeTest /\ [][C22_EveryIterationOnceWarm]_vars

\* At frame_step_ratio 3/2 a thread is about to put the batch of its second
\* consecutive warm iteration, with two transitions pushed.
C22_Witness ==
    /\ cfg.agent.frame_step_ratio = <<3, 2>>
    /\ cfg.agent.init_memory_size = 1
    /\ \E t \in Threads :
        /\ builder[t].pc = "put"
        /\ builder[t].steps = 2
        /\ Len(log.pushed[t]) = 2

----------------------------------------------------------------------------
(* C23: the drain of _prepare_batch at frame_step_ratio < 1 (lines 244-245 *)
(* and 250-252) and the batches of a warm thread (257-260).                *)

\* Iterations of thread t whose drain is over.
C23_Drained(t) ==
    IF builder[t].pc = "get" THEN builder[t].steps - 1 ELSE builder[t].steps

\* One transition popped and pushed in every (1/frame_step_ratio)-th
\* iteration, none in the others.
C23_OnePerFrame ==
    \A t \in Threads :
        FrameStepRatioBelowOne(cfg.agent)
        => /\ Len(log.pushed[t])
                  = RTrunc(RMul(RInt(C23_Drained(t)), cfg.agent.frame_step_ratio))
           /\ builder[t].pc = "get" => builder[t].todo = 1

\* No transition is popped and discarded, and a thread at or above the
\* threshold puts one batch in the iteration.
C23_BatchPerIteration ==
    FrameStepRatioBelowOne(cfg.agent)
    => /\ Len(transition_queue') < Len(transition_queue)
          => \E t \in Threads :
                /\ transition_queue' = Tail(transition_queue)
                /\ builder'[t].memory
                       = MemPush(builder[t].memory, Head(transition_queue))
       /\ \A t \in Threads :
            /\ (/\ builder'[t] # builder[t]
                /\ builder[t].pc \in {"loop", "get"}
                /\ builder'[t].pc = "loop")
               => InWarmup(cfg.agent, builder'[t].memory)
            /\ (builder[t].pc = "put" /\ builder'[t].pc # "put")
               => /\ builder'[t].pc = "loop"
                  /\ Len(batch_queue') = Len(batch_queue) + 1

\* C23: at frame_step_ratio < 1 a thread pops one transition in every
\* (1/frame_step_ratio)-th iteration and none in the others, pushes every
\* transition it pops into its shard, and once its shard is at or above the
\* threshold puts one batch in every iteration.
C23_SubSampling == []C23_OnePerFrame /\ [][C23_BatchPerIteration]_vars

----------------------------------------------------------------------------
(* C24: the end of the warmup (lines 242 and 257, and 117-118).            *)

\* C24: for init_memory_size <= memory_size the threshold of the warmup
\* test does not exceed the capacity of a shard: a thread whose shard is
\* full is at or above the threshold, so a thread that keeps receiving
\* transitions leaves the warmup.
C24_WarmupEnds ==
    cfg.args.init_memory_size <= cfg.args.memory_size
    => \A t \in Threads :
           MemLen(builder[t].memory) = builder[t].memory.capacity
           => ~InWarmup(cfg.agent, builder[t].memory)

----------------------------------------------------------------------------
(* C25: the step counter of learn (lines 165-172) and the batches taken by *)
(* _optimize (185-186).                                                    *)

\* Optimizer steps taken in this run.
C25_Updates == q_network - LoadedModel(cfg.args)

\* The counter is the number of optimizer steps of the run and the number
\* of batches taken, less the batch _optimize is working on.
C25_CountsBatches ==
    /\ learner.steps = C25_Updates
    /\ learner.steps = Len(log.bq_got) - (IF learner.pc = "optimize" THEN 1 ELSE 0)
    /\ Len(log.bq_got) + Len(batch_queue) = Len(log.bq_put)

\* The counter changes only by the increment that follows one optimizer
\* step on the batch taken last, and an iteration starts again only then.
C25_OnePerIteration ==
    /\ learner'.steps >= learner.steps
    /\ (learner'.steps # learner.steps \/ q_network' # q_network
        \/ (learner.pc = "optimize" /\ learner'.pc # "optimize"))
       => /\ learner.pc = "optimize"
          /\ learner.batch = log.bq_got[learner.steps + 1]
          /\ learner'.steps = learner.steps + 1
          /\ q_network' = q_network + 1
          /\ learner'.pc = "sync"

----------------------------------------------------------------------------
(* The gradient of _optimize (lines 210-217): zero_grad() and backward(),  *)
(* clamp_ on the gradient of every parameter, then optimizer.step().  A    *)
(* gradient is one float32 element per parameter; the network and the loss *)
(* are not part of this code, so backward() may leave any value.           *)

\* parameters of the network.
NumParams == 2
\* the finite gradient elements drawn are -MaxGrad .. MaxGrad.
MaxGrad == 2

\* -x
TensorNeg(x) ==
    IF x.nan THEN NaN
    ELSE IF x.inf # 0 THEN (IF x.inf = 1 THEN NegInf ELSE PosInf)
    ELSE Fin(<<-x.val[1], x.val[2]>>)

\* A clamp that only cuts from above.
Clamp_UpperOnly(x, min_value, max_value) ==
    IF ~x.nan /\ TensorLess(max_value, x) THEN max_value ELSE x

\* clamp_(min_value, max_value) on one element:
\* (x < min_value) ? min_value : (x > max_value ? max_value : x), where
\* every comparison with NaN is false.
Clamp(x, min_value, max_value) ==
    IF ~x.nan /\ TensorLess(x, min_value) THEN min_value
    ELSE IF ~x.nan /\ TensorLess(max_value, x) THEN max_value
    ELSE x

\* what backward() may leave in an element: finite values, and those of a
\* loss that has diverged.
GradValues ==
    {Fin(RInt(v)) : v \in (-MaxGrad) .. MaxGrad} \cup {PosInf, NegInf, NaN}

\* self._optimizer.zero_grad(); loss.backward()
LearnerBackward ==
    /\ learner.pc = "optimize"
    /\ \E grad \in [1 .. NumParams -> GradValues] :
         learner' = [learner EXCEPT !.backward = grad, !.grad = grad,
                                    !.param = 1, !.pc = "clamp"]
    /\ UNCHANGED <<cfg, current_eps, q_network, target_q_network,
                   transition_queue, batch_queue, actor, builder, log>>

\* for param in self._q_network.parameters():
\*     param.grad.data.clamp_(-self._gradient_clipping, self._gradient_clipping)
LearnerClamp ==
    /\ learner.pc = "clamp"
    /\ learner' = [learner EXCEPT
                     !.grad[learner.param] =
                         Clamp(@, TensorNeg(cfg.agent.gradient_clipping),
                               cfg.agent.gradient_clipping),
                     !.param = @ + 1,
                     !.pc = IF learner.param = NumParams THEN "step" ELSE "clamp"]
    /\ UNCHANGED <<cfg, current_eps, q_network, target_q_network,
                   transition_queue, batch_queue, actor, builder, log>>

\* self._optimizer.step(), on the gradient as it is now; back in learn(),
\* steps += 1.
LearnerStep ==
    /\ learner.pc = "step"
    /\ q_network' = q_network + 1
    /\ learner' = [learner EXCEPT !.stepped = learner.grad,
                                  !.steps = @ + 1, !.pc = "sync"]
    /\ UNCHANGED <<cfg, current_eps, target_q_network, transition_queue,
                   batch_queue, actor, builder, log>>

\* The agent with its gradient_clipping.
WithClipping(agent, gradient_clipping) ==
    [f \in DOMAIN agent \cup {"gradient_clipping"} |->
        IF f = "gradient_clipping" THEN gradient_clipping ELSE agent[f]]

\* The learner has taken a batch of one transition and computed its loss;
\* gradient_clipping is 1/2 or 1, which float32 holds exactly.
InitClip ==
    LET args == Args(1, 1, NumThreads, <<1, 1>>, FALSE, 1, "linear",
                     Tenths(10), Tenths(1), 2, "mse", -1, FALSE, 1)
        agent == FastDQNAgent(args)
        batch == transitions_to_batch(
                     <<Transition(<<<<0, 1, 0>>, 0, 1, <<0, 1, 1>>, FALSE>>)>>)
    IN  /\ current_eps = EpsFloat(InitialEps)
        /\ q_network = 0
        /\ target_q_network = -1
        /\ transition_queue = <<>>
        /\ batch_queue = <<>>
        /\ actor = [a \in {0} |->
                      [pc |-> "reset", episode |-> 0, frame |-> 0,
                       observation |-> <<>>, action |-> 0, reward |-> 0,
                       next_observation |-> <<>>, done |-> FALSE,
                       episode_id |-> 0, eps |-> EpsFloat(InitialEps)]]
        /\ builder = [t \in Threads |->
                        [pc |-> "loop", steps |-> 0, todo |-> 0,
                         memory |-> ReplayMemory(ShardCapacity(agent))]]
        /\ log = [tq_put |-> {}, pushed |-> [t \in Threads |-> <<>>],
                  bq_put |-> <<batch>>, bq_got |-> <<batch>>,
                  eps_written |-> <<>>, saved |-> <<>>]
        /\ learner = [pc |-> "optimize", steps |-> 0, batch |-> batch,
                      backward |-> <<>>, grad |-> <<>>, param |-> 0,
                      stepped |-> <<>>]
        /\ \E gradient_clipping \in {Fin(<<1, 2>>), Fin(<<1, 1>>)} :
             cfg = [agent |-> WithClipping(agent, gradient_clipping),
                    args |-> args, num_actor_workers |-> 1,
                    limit |-> Limit(1, 1, 1)]

SpecClip == InitClip /\ [][LearnerBackward \/ LearnerClamp \/ LearnerStep]_vars

\* x lies in [-gradient_clipping, +gradient_clipping]
C26_Within(x) ==
    /\ ~x.nan
    /\ ~TensorLess(x, TensorNeg(cfg.agent.gradient_clipping))
    /\ ~TensorLess(cfg.agent.gradient_clipping, x)

\* min(max(g, -gradient_clipping), +gradient_clipping), with the min and
\* max of floats: a comparison with NaN is false and keeps the NaN.
C26_MinMax(g) ==
    LET lo == TensorNeg(cfg.agent.gradient_clipping)
        hi == cfg.agent.gradient_clipping
        m == IF ~g.nan /\ TensorLess(g, lo) THEN lo ELSE g
    IN  IF ~m.nan /\ TensorLess(hi, m) THEN hi ELSE m

\* C26 as stated: the optimizer step has only seen gradient
\* elements within [-gradient_clipping, +gradient_clipping].
C26_StepSeesClipped ==
    learner.pc = "sync"
    => \A p \in 1 .. NumParams : C26_Within(learner.stepped[p])

C26_ClippedBeforeStep ==
    /\ learner.pc \in {"step", "sync"}
       => \A p \in 1 .. NumParams :
            /\ learner.grad[p] = C26_MinMax(learner.backward[p])
            /\ ~learner.backward[p].nan => C26_Within(learner.grad[p])
    /\ learner.pc = "sync" => learner.stepped = learner.grad
    /\ q_network = (IF learner.pc = "sync" THEN 1 ELSE 0)
    /\ q_network <= Len(log.bq_got)

\* C26: when the optimizer step is taken every element of the gradient that
\* backward() left is min(max(g, -gradient_clipping), +gradient_clipping),
\* which is within [-gradient_clipping, +gradient_clipping] unless g is
\* NaN; the optimizer step uses that gradient, and one optimizer step is
\* taken for the batch.
C26_GradientClipping ==
    /\ []C26_ClippedBeforeStep
    /\ [][q_network' # q_network
          => learner.pc = "step" /\ q_network' = q_network + 1]_vars

\* The optimizer has stepped on a gradient whose elements were above and
\* below the interval.
C26_Witness ==
    /\ learner.pc = "sync"
    /\ learner.backward[1] = PosInf
    /\ learner.backward[2] = Fin(RInt(-MaxGrad))
    /\ learner.stepped[1] = cfg.agent.gradient_clipping
    /\ learner.stepped[2] = TensorNeg(cfg.agent.gradient_clipping)

----------------------------------------------------------------------------
(* The deprecated variant (deprecated/agents/fast_dqn_agent.py): one       *)
(* ReplayMemory, self._memory, which every batch thread pushes into and    *)
(* samples from in _prepare_batch, with no lock.  The threads run Python    *)
(* code, so a thread can be preempted between two statements of            *)
(* ReplayMemory.push: fill a free slot if the buffer is not full, store    *)
(* the transition at the cursor, advance the cursor.  The shared memory is *)
(* the field learner.memory of the agent; builder[t] is batch thread t.    *)

\* multiprocessing.Queue(100)
InstanceQueueSize == 100

\* the transitions collected in a run of the deprecated variant.
MaxCollected == 3
\* the batches its threads put.
MaxBatches == 2

\* A slot that push has appended and not yet stored into.
EmptySlot == <<>>

\* collect_experience_worker: env.step(action) and
\* out_queue.put((observation, action, reward, next_observation, done))
CollectExperience(a) ==
    LET frame == actor[a].frame
        item == <<<<a, 1, frame>>, 0, frame + 1, <<a, 1, frame + 1>>, FALSE>>
    IN  /\ frame < cfg.limit.frames
        /\ CanPut(transition_queue, InstanceQueueSize)
        /\ transition_queue' = Append(transition_queue, item)
        /\ actor' = [actor EXCEPT ![a].frame = frame + 1]
        /\ log' = [log EXCEPT !.tq_put = @ \cup {item}]
        /\ UNCHANGED <<cfg, current_eps, q_network, target_q_network,
                       batch_queue, builder, learner>>

\* while not self._instance_queue.empty(): ...
\* if len(self._memory) < self._warmup_size: time.sleep(0.1); continue
BatchThreadLoop(t) ==
    /\ builder[t].pc = "loop"
    /\ builder' = [builder EXCEPT
                     ![t].pc = IF transition_queue # <<>> THEN "get"
                               ELSE IF MemLen(learner.memory) < cfg.agent.warmup_size
                                    THEN "loop" ELSE "sample"]
    /\ builder'[t] # builder[t]
    /\ UNCHANGED <<cfg, current_eps, q_network, target_q_network,
                   transition_queue, batch_queue, actor, learner, log>>

\* self._instance_queue.get(), the argument of push
BatchThreadGet(t) ==
    /\ builder[t].pc = "get"
    /\ CanGet(transition_queue)
    /\ transition_queue' = Tail(transition_queue)
    /\ builder' = [builder EXCEPT ![t].item = Head(transition_queue),
                                  ![t].pc = "fill"]
    /\ log' = [log EXCEPT !.pushed[t] = Append(@, Head(transition_queue))]
    /\ UNCHANGED <<cfg, current_eps, q_network, target_q_network,
                   batch_queue, actor, learner>>

\* push: if the buffer is not full, a free slot is added at its end
BatchThreadFill(t) ==
    /\ builder[t].pc = "fill"
    /\ learner' = [learner EXCEPT
                     !.memory.memory =
                         IF Len(@) < learner.memory.capacity
                         THEN Append(@, EmptySlot) ELSE @]
    /\ builder' = [builder EXCEPT ![t].pc = "store"]
    /\ UNCHANGED <<cfg, current_eps, q_network, target_q_network,
                   transition_queue, batch_queue, actor, log>>

\* push: the transition is stored in the slot at the cursor
BatchThreadStore(t) ==
    /\ builder[t].pc = "store"
    /\ learner' = [learner EXCEPT
                     !.memory.memory[learner.memory.position + 1] =
                         Transition(builder[t].item)]
    /\ builder' = [builder EXCEPT ![t].pc = "advance"]
    /\ UNCHANGED <<cfg, current_eps, q_network, target_q_network,
                   transition_queue, batch_queue, actor, log>>

\* push: the cursor moves on, circularly; back to the test of the queue
BatchThreadAdvance(t) ==
    /\ builder[t].pc = "advance"
    /\ learner' = [learner EXCEPT
                     !.memory.position = (@ + 1) % learner.memory.capacity]
    /\ builder' = [builder EXCEPT ![t].pc = "loop"]
    /\ UNCHANGED <<cfg, current_eps, q_network, target_q_network,
                   transition_queue, batch_queue, actor, log>>

\* transitions = self._memory.sample(self._batch_size)
\* batch = Transition(*zip(*transitions)), which fails on a slot that holds
\* no transition; ...; self._batch_queue.put(batch)
BatchThreadSample(t) ==
    /\ builder[t].pc = "sample"
    /\ Len(log.bq_put) < cfg.limit.builder_steps
    /\ CanPut(batch_queue, BatchQueueSize)
    /\ \E transitions \in MemSamples(learner.memory, cfg.agent.batch_size) :
         IF \E j \in DOMAIN transitions : transitions[j] = EmptySlot
         THEN /\ builder' = [builder EXCEPT ![t].pc = "crashed"]
              /\ UNCHANGED <<batch_queue, log>>
         ELSE LET batch == transitions_to_batch(transitions)
              IN  /\ batch_queue' = Append(batch_queue, batch)
                  /\ log' = [log EXCEPT !.bq_put = Append(@, batch)]
                  /\ builder' = [builder EXCEPT ![t].pc = "loop"]
    /\ UNCHANGED <<cfg, current_eps, q_network, target_q_network,
                   transition_queue, actor, learner>>

\* train, the head of an iteration: the target network is replaced by a
\* copy when self._steps is a multiple of target_update_freq, and
\* if self._epsilon.value > self._epsilon_min:
\*     self._epsilon.value -= self._epsilon_decrease
TrainEpsilon ==
    LET eps == current_eps.base
        next == IF FloatLt(cfg.agent.epsilon_min, eps)
                THEN FloatSub(eps, cfg.agent.epsilon_decrease) ELSE eps
    IN  /\ learner.pc = "eps"
        /\ target_q_network' =
               IF learner.steps % cfg.agent.target_update_freq = 0
               THEN q_network ELSE target_q_network
        /\ current_eps' = EpsFloat(next)
        /\ learner' = [learner EXCEPT !.pc = "get"]
        /\ log' = [log EXCEPT !.eps_written = Append(@, EpsFloat(next))]
        /\ UNCHANGED <<cfg, q_network, transition_queue, batch_queue, actor,
                       builder>>

\* batch = self._batch_queue.get(); loss_sum += self._update(batch), which
\* takes one optimizer step and increments self._steps; then the checkpoint
\* when self._steps is a multiple of save_model_freq.
TrainUpdate ==
    /\ learner.pc = "get"
    /\ CanGet(batch_queue)
    /\ batch_queue' = Tail(batch_queue)
    /\ q_network' = q_network + 1
    /\ learner' = [learner EXCEPT !.steps = @ + 1, !.pc = "eps"]
    /\ log' = [log EXCEPT
                 !.bq_got = Append(@, Head(batch_queue)),
                 !.saved = IF (learner.steps + 1) % cfg.agent.save_model_freq = 0
                           THEN Append(@, learner.steps + 1) ELSE @]
    /\ UNCHANGED <<cfg, current_eps, target_q_network, transition_queue,
                   actor, builder>>

\* <<epsilon_max, epsilon_min>> in tenths and epsilon_decrease_steps.
DeprecatedEps == {<<10, 0, 2>>, <<10, 1, 2>>}

\* __init__ and _init_experience_collectors of the deprecated variant, with
\* one collector, memory_size 1 or 2, warmup_size 1 and batch_size 1.
InitDeprecated ==
    \E memory_size \in 1 .. 2, eps \in DeprecatedEps :
        /\ cfg = [agent |-> [memory_size |-> memory_size, warmup_size |-> 1,
                             batch_size |-> 1,
                             epsilon_max |-> Tenths(eps[1]),
                             epsilon_min |-> Tenths(eps[2]),
                             epsilon_decrease_steps |-> eps[3],
                             epsilon_decrease |->
                                 FloatDivInt(FloatSub(Tenths(eps[1]),
                                                      Tenths(eps[2])), eps[3]),
                             target_update_freq |-> 1,
                             save_model_freq |-> 1],
                  num_actor_workers |-> 1,
                  limit |-> Limit(MaxCollected, MaxBatches, MaxBatches)]
        /\ current_eps = EpsFloat(Tenths(eps[1]))
        /\ q_network = 0
        /\ target_q_network = 0
        /\ transition_queue = <<>>
        /\ batch_queue = <<>>
        /\ actor = [a \in {0} |-> [frame |-> 0]]
        /\ builder = [t \in Threads |-> [pc |-> "loop", item |-> <<>>]]
        /\ learner = [pc |-> "eps", steps |-> 0,
                      memory |-> ReplayMemory(memory_size)]
        /\ log = [tq_put |-> {}, pushed |-> [t \in Threads |-> <<>>],
                  bq_put |-> <<>>, bq_got |-> <<>>, eps_written |-> <<>>,
                  saved |-> <<>>]

NextDeprecated ==
    \/ CollectExperience(0)
    \/ \E t \in Threads : BatchThreadLoop(t)
    \/ \E t \in Threads : BatchThreadGet(t)
    \/ \E t \in Threads : BatchThreadFill(t)
    \/ \E t \in Threads : BatchThreadStore(t)
    \/ \E t \in Threads : BatchThreadAdvance(t)
    \/ \E t \in Threads : BatchThreadSample(t)
    \/ TrainEpsilon
    \/ TrainUpdate

SpecDeprecated == InitDeprecated /\ [][NextDeprecated]_vars

\* Thread t is inside self._memory.push
C27_InPush(t) == builder[t].pc \in {"fill", "store", "advance"}

\* Transitions taken from the instance queue, by all threads
RECURSIVE C27_Popped(_)
C27_Popped(n) ==
    IF n = 0 THEN 0 ELSE Len(log.pushed[n - 1]) + C27_Popped(n - 1)

\* C27: in the deprecated variant the replay memory is used by one batch
\* thread at a time: no two threads are inside push together, the count
\* never exceeds the capacity, and whenever no thread is inside push every
\* transition taken from the queue has been stored: the buffer holds
\* min(taken, capacity) transitions, no slot is empty and the cursor is the
\* number taken modulo the capacity.
C27_OneThreadAtATime ==
    /\ \A t, u \in Threads : (C27_InPush(t) /\ C27_InPush(u)) => t = u
    /\ MemLen(learner.memory) <= learner.memory.capacity
    /\ (\A t \in Threads : ~C27_InPush(t))
       => /\ MemLen(learner.memory)
                 = Min(C27_Popped(NumThreads), learner.memory.capacity)
          /\ \A i \in 1 .. MemLen(learner.memory) :
                 learner.memory.memory[i] # EmptySlot
          /\ learner.memory.position
                 = C27_Popped(NumThreads) % learner.memory.capacity

----------------------------------------------------------------------------
(* C28: the epsilon of the deprecated variant (lines 82-85 and 149-150).   *)

\* max(epsilon_min, epsilon_max - k * d), in floats
C28_Schedule(c, k) ==
    LET linear == FloatSub(c.epsilon_max, FloatMulInt(c.epsilon_decrease, k))
    IN  IF FloatLt(linear, c.epsilon_min) THEN c.epsilon_min ELSE linear

\* The epsilon written by each iteration so far, after epsilon_max.
C28_History == <<EpsFloat(cfg.agent.epsilon_max)>> \o log.eps_written

\* C28: after the epsilon update of the k-th iteration of train epsilon is
\* max(epsilon_min, epsilon_max - k * d) with
\* d = (epsilon_max - epsilon_min) / epsilon_decrease_steps; it is never
\* below epsilon_min, never increases and stays once it is epsilon_min.
C28_IncrementalSchedule ==
    \A k \in 1 .. Len(log.eps_written) :
        /\ log.eps_written[k] = EpsFloat(C28_Schedule(cfg.agent, k))
        /\ FloatLeq(cfg.agent.epsilon_min, log.eps_written[k].base)
        /\ FloatLeq(C28_History[k + 1].base, C28_History[k].base)
        /\ C28_History[k].base = cfg.agent.epsilon_min
           => C28_History[k + 1] = C28_History[k]

====
